---- MODULE Spec2Model ----
(***************************************************************************)
(* Cube state model, rotation engine and rotation queue of the Rubik's     *)
(* cube front end (components/RubiksCube.jsx), the solver-move handlers of *)
(* App (handleApplyMove, handleAutoSolve) and the colour-grid converters   *)
(* of utils/cubeColorLoader, the sticker editor of App (cell selection and *)
(* handleColorSelect) and the setPieces method of the cube handle.         *)
(*                                                                         *)
(* React state is modelled at the granularity of handlers: every handler   *)
(* (an event handler, a timer callback, a useFrame callback) reads the     *)
(* state of the latest render, and the state updates it issues are applied *)
(* together when it returns.  Several addRotation calls made by one        *)
(* handler therefore all read the same isRotating and the same pieces.     *)
(***************************************************************************)
EXTENDS Integers, Sequences, FiniteSets, TLC

VARIABLES
    pieces,         \* useState(initialPieces): array of {id, position, faceColors}
    isRotating,     \* useState(false)
    rotationQueue,  \* useState([]): array of {face, direction, duration}
    rotationState,  \* useState({axis, direction, startTime, activeGroup, face, duration})
    clock,          \* state.clock.elapsedTime * 1000 as read by the last useFrame callback
    timers,         \* pending setTimeout callbacks of handleApplyMove: {face, direction}
    colorEditMode,  \* App: useState(false)
    selectedCell,   \* App: useState(null): {pieceId, faceIndex, x, y, z}
    waiters,        \* pending waitForRotationComplete closures of setPieces:
                    \* {newPieces, isRotating, queueLength} as captured by the closure
    kociemba,       \* utils/solutionApplier: the values a caller of cubeToKociembaString
                    \* and kociembaStringToCube holds: {cubeData, string, error, op}
    solution,       \* utils/cubeSolver: the move array a caller of reverseSolution holds
                    \* and the array it got back: {moves, reversed, op}
    viewer,         \* components/SolutionViewer: its state, refs and pending timers
    imageApi,       \* utils/imageApi: localStorage, the backend and the upload calls
    base,           \* history: the pieces when the cube was last at rest before a request
    requested,      \* history: the addRotation calls made since then, in call order
    opener,         \* history: the handler call that found the cube at rest ("mixed" once
                    \* another handler has been invoked before the cube is at rest again)
    calls,          \* history: number of addRotation calls made so far
    committed,      \* history: the turns committed since base was taken, in commit order
    selects         \* history: number of cell selections made so far

vars == <<pieces, isRotating, rotationQueue, rotationState, clock, timers,
          colorEditMode, selectedCell, waiters, kociemba, solution, viewer, imageApi,
          base, requested, opener, calls, committed, selects>>

\* the state of the utilities and components that do not hold the cube
aside == <<solution, viewer, imageApi>>

\* the state of App's sticker editor, and the pending bulk replaces
editor == <<colorEditMode, selectedCell, selects>>

(***************************************************************************)
(* Bounds of the model.                                                    *)
(***************************************************************************)
\* addRotation calls in one behaviour
MaxCalls == 2
\* milliseconds between two animation frames in which a turn is in flight
FrameMs == 250
\* number of random turns one shuffle() draws (shuffleCount is 20 in the source)
ShuffleLen == 2
\* length of the solver move list given to handleAutoSolve
MaxMoves == 2
\* cell selections (3D or net) in one behaviour
MaxSelects == 1
\* bulk replaces that wait for the rotations to complete at the same time
MaxWaiters == 1
\* session ids the backend issues in one behaviour
MaxSessions == 8

(***************************************************************************)
(* Program constants.                                                      *)
(***************************************************************************)
ROTATION_DURATION == 500
SHUFFLE_ROTATION_DURATION == 150
\* duration handleAutoSolve passes to addRotation
AUTO_SOLVE_DURATION == 200

\* COLORS of initialPieces (hex values)
COLORS ==
    [red |-> 12852794, green |-> 40544, blue |-> 20922, orange |-> 16734208,
     yellow |-> 16766208, white |-> 16777215, black |-> 2171169]

Palette == {COLORS.red, COLORS.green, COLORS.blue, COLORS.orange, COLORS.yellow, COLORS.white}

Faces == {"R", "L", "U", "D", "F", "B"}
Directions == {1, -1}
Coords == {-1, 0, 1}

\* faceMap of selectPiecesForRotation: face -> {axis, value}
faceMap(face) ==
    CASE face = "R" -> [axis |-> "x", value |-> 1]
      [] face = "L" -> [axis |-> "x", value |-> -1]
      [] face = "U" -> [axis |-> "y", value |-> 1]
      [] face = "D" -> [axis |-> "y", value |-> -1]
      [] face = "F" -> [axis |-> "z", value |-> 1]
      [] face = "B" -> [axis |-> "z", value |-> -1]

\* ['x','y','z'].indexOf(axis), as a 1-based tuple index
axisIndex(axis) == CASE axis = "x" -> 1 [] axis = "y" -> 2 [] axis = "z" -> 3

(***************************************************************************)
(* initialPieces: the 26 pieces in the order of the x, y, z loops.         *)
(***************************************************************************)
initialPieces ==
    [i \in 1..26 |->
        LET k == IF i <= 13 THEN i - 1 ELSE i     \* k = 13 is the skipped centre
            x == (k \div 9) - 1
            y == ((k \div 3) % 3) - 1
            z == (k % 3) - 1
        IN  [id |-> <<x, y, z>>,
             position |-> <<x, y, z>>,
             faceColors |-> << IF x = 1 THEN COLORS.red ELSE COLORS.black,
                               IF x = -1 THEN COLORS.orange ELSE COLORS.black,
                               IF y = 1 THEN COLORS.white ELSE COLORS.black,
                               IF y = -1 THEN COLORS.yellow ELSE COLORS.black,
                               IF z = 1 THEN COLORS.green ELSE COLORS.black,
                               IF z = -1 THEN COLORS.blue ELSE COLORS.black >>]]

\* useState initial value of rotationState, also set when the queue runs empty
idleRotationState ==
    [axis |-> "null", direction |-> 1, startTime |-> 0, activeGroup |-> << >>,
     face |-> "null", duration |-> ROTATION_DURATION]

(***************************************************************************)
(* selectPiecesForRotation: pieces.filter(position[axisIndex] === value)   *)
(***************************************************************************)
selectPiecesForRotation(ps, face) ==
    LET fm == faceMap(face)
    IN  SelectSeq(ps, LAMBDA piece : piece.position[axisIndex(fm.axis)] = fm.value)

\* activePieces.map(p => p.id)
idsOf(ps) == [i \in 1..Len(ps) |-> ps[i].id]

\* activeGroup.includes(id)
includes(group, id) == \E i \in 1..Len(group) : group[i] = id

(***************************************************************************)
(* rotatePosition.  Doubles are modelled in fixed point, one unit being    *)
(* 1/Scale: Math.sin(+-PI/2) is +-1 exactly, Math.cos(+-PI/2) is the small *)
(* positive double 6.1e-17, modelled here as one unit.  Math.round(v) is   *)
(* floor(v + 1/2).                                                         *)
(***************************************************************************)
Scale == 1000
cosQ(direction) == 1
sinQ(direction) == direction * Scale
MathRound(v) == (2 * v + Scale) \div (2 * Scale)

\* rotatePosition with the sign of the sine terms of the y axis exchanged
rotatePosition_ySign(position, axis, direction) ==
    LET x == position[1]
        y == position[2]
        z == position[3]
        c == cosQ(direction)
        s == sinQ(direction)
    IN  CASE axis = "x" -> << x, MathRound(y * c - z * s), MathRound(y * s + z * c) >>
          [] axis = "y" -> << MathRound(x * c - z * s), y, MathRound(x * s + z * c) >>
          [] axis = "z" -> << MathRound(x * c - y * s), MathRound(x * s + y * c), z >>
          [] OTHER -> position

rotatePosition(position, axis, direction) ==
    LET x == position[1]
        y == position[2]
        z == position[3]
        c == cosQ(direction)
        s == sinQ(direction)
    IN  CASE axis = "x" -> << x, MathRound(y * c - z * s), MathRound(y * s + z * c) >>
          [] axis = "y" -> << MathRound(x * c + z * s), y, MathRound((-x) * s + z * c) >>
          [] axis = "z" -> << MathRound(x * c - y * s), MathRound(x * s + y * c), z >>
          [] OTHER -> position

(***************************************************************************)
(* rotateFaceColors.  n0..n5 are the slots [Right, Left, Top, Bottom,      *)
(* Front, Back] of the input; each branch lists the result of the four     *)
(* assignments of the source.                                              *)
(***************************************************************************)
\* rotateFaceColors whose x branch does not look at the direction
rotateFaceColors_oneWay(colors, axis, direction) ==
    LET n0 == colors[1]
        n1 == colors[2]
        n2 == colors[3]
        n3 == colors[4]
        n4 == colors[5]
        n5 == colors[6]
    IN  CASE axis = "x" -> << n0, n1, n5, n4, n2, n3 >>
          [] axis = "y" ->
                IF direction = 1 THEN << n4, n5, n2, n3, n1, n0 >>
                                 ELSE << n5, n4, n2, n3, n0, n1 >>
          [] axis = "z" ->
                IF direction = 1 THEN << n3, n2, n0, n1, n4, n5 >>
                                 ELSE << n2, n3, n1, n0, n4, n5 >>
          [] OTHER -> colors

\* rotateFaceColors whose y branches lose their last assignment (the one from temp)
rotateFaceColors_short(colors, axis, direction) ==
    LET n0 == colors[1]
        n1 == colors[2]
        n2 == colors[3]
        n3 == colors[4]
        n4 == colors[5]
        n5 == colors[6]
    IN  CASE axis = "x" ->
                IF direction = 1 THEN << n0, n1, n5, n4, n2, n3 >>
                                 ELSE << n0, n1, n4, n5, n3, n2 >>
          [] axis = "y" ->
                IF direction = 1 THEN << n4, n5, n2, n3, n1, n5 >>
                                 ELSE << n5, n4, n2, n3, n4, n1 >>
          [] axis = "z" ->
                IF direction = 1 THEN << n3, n2, n0, n1, n4, n5 >>
                                 ELSE << n2, n3, n1, n0, n4, n5 >>
          [] OTHER -> colors

\* rotateFaceColors with the two z branches exchanged
rotateFaceColors_zSwapped(colors, axis, direction) ==
    LET n0 == colors[1]
        n1 == colors[2]
        n2 == colors[3]
        n3 == colors[4]
        n4 == colors[5]
        n5 == colors[6]
    IN  CASE axis = "x" ->
                IF direction = 1 THEN << n0, n1, n5, n4, n2, n3 >>
                                 ELSE << n0, n1, n4, n5, n3, n2 >>
          [] axis = "y" ->
                IF direction = 1 THEN << n4, n5, n2, n3, n1, n0 >>
                                 ELSE << n5, n4, n2, n3, n0, n1 >>
          [] axis = "z" ->
                IF direction = 1 THEN << n2, n3, n1, n0, n4, n5 >>
                                 ELSE << n3, n2, n0, n1, n4, n5 >>
          [] OTHER -> colors

rotateFaceColors(colors, axis, direction) ==
    LET n0 == colors[1]
        n1 == colors[2]
        n2 == colors[3]
        n3 == colors[4]
        n4 == colors[5]
        n5 == colors[6]
    IN  CASE axis = "x" ->
                IF direction = 1 THEN << n0, n1, n5, n4, n2, n3 >>
                                 ELSE << n0, n1, n4, n5, n3, n2 >>
          [] axis = "y" ->
                IF direction = 1 THEN << n4, n5, n2, n3, n1, n0 >>
                                 ELSE << n5, n4, n2, n3, n0, n1 >>
          [] axis = "z" ->
                IF direction = 1 THEN << n3, n2, n0, n1, n4, n5 >>
                                 ELSE << n2, n3, n1, n0, n4, n5 >>
          [] OTHER -> colors

(***************************************************************************)
(* The setPieces updater of the commit branch of useFrame.                 *)
(***************************************************************************)
\* a commit that maps only the first piece of the group
commitPieces_first(prevPieces, rs) ==
    [i \in 1..Len(prevPieces) |->
        LET piece == prevPieces[i]
        IN  IF Len(rs.activeGroup) > 0 /\ rs.activeGroup[1] = piece.id
            THEN [piece EXCEPT !.position = rotatePosition(piece.position, rs.axis, rs.direction),
                               !.faceColors = rotateFaceColors(piece.faceColors, rs.axis, rs.direction)]
            ELSE piece]

commitPieces(prevPieces, rs) ==
    [i \in 1..Len(prevPieces) |->
        LET piece == prevPieces[i]
        IN  IF includes(rs.activeGroup, piece.id)
            THEN [piece EXCEPT !.position = rotatePosition(piece.position, rs.axis, rs.direction),
                               !.faceColors = rotateFaceColors(piece.faceColors, rs.axis, rs.direction)]
            ELSE piece]

\* startState without the axis lookup (faceMap[face] left out)
startState_noAxis(ps, face, direction, duration) ==
    [axis |-> "null", direction |-> direction, startTime |-> 0,
     activeGroup |-> idsOf(selectPiecesForRotation(ps, face)),
     face |-> face, duration |-> duration]

\* the rotationState that addRotation and the dequeue branch of useFrame build
startState(ps, face, direction, duration) ==
    [axis |-> faceMap(face).axis, direction |-> direction, startTime |-> 0,
     activeGroup |-> idsOf(selectPiecesForRotation(ps, face)),
     face |-> face, duration |-> duration]

\* the piece array after a turn of `face` selected and committed on ps:
\* addRotation on an idle cube followed by the commit branch of useFrame
turnPieces(ps, face, direction) ==
    commitPieces(ps, startState(ps, face, direction, ROTATION_DURATION))

\* turnPieces for each request of reqs, in order
RECURSIVE turnAll(_, _)
turnAll(ps, reqs) ==
    IF reqs = << >> THEN ps
    ELSE turnAll(turnPieces(ps, Head(reqs).face, Head(reqs).direction), Tail(reqs))

\* neither a turn in flight, nor a queued turn, nor a pending timer
AtRest == ~isRotating /\ rotationQueue = << >> /\ timers = << >>

\* the pieceId of a selected cell that has none (undefined)
NoId == << >>

\* selectedCell of App while no cell is selected (null)
NoCell == [pieceId |-> NoId, faceIndex |-> -1, x |-> 0, y |-> 0, z |-> 0]

\* a value of the history variable opener: the handler, the face and the
\* rotation (or colour, or index of the piece array) it was given, the solver
\* move tokens they were parsed from, and the cell it applied a colour to
call(handler, face, rotation) ==
    [handler |-> handler, face |-> face, rotation |-> rotation, move |-> << >>,
     cell |-> NoCell]

\* a caller of reverseSolution before any call
NoSolution == [moves |-> << >>, reversed |-> << >>, op |-> "none"]

\* SolutionViewer while it is not mounted: no move list, nothing pending.
\* moveQueue holds {face, rotation, targetStep} and, as history, the token
\* and whether handlePrevStep made the entry; waitTimers counts the pending
\* setTimeout callbacks of the queue effect.  History: forward and backward
\* count the moves dispatched since the last reset, dispatched lists them,
\* snapshot is the pieces at the last forward dispatch, playFrom and playAt
\* are currentStep and the length of dispatched when auto-play was last
\* started, interrupted tells that a button was used after that.
NoViewer ==
    [moveList |-> << >>, currentStep |-> 0, moveQueue |-> << >>, isProcessing |-> FALSE,
     isPending |-> FALSE, autoPlay |-> FALSE, waitTimers |-> 0,
     forward |-> 0, backward |-> 0, dispatched |-> << >>, snapshot |-> << >>,
     playFrom |-> 0, playAt |-> 0, interrupted |-> FALSE]

\* imageApi while no call has been made.  stored is the session id in
\* localStorage (0: none), sessionId the local variable of the call in flight,
\* phase the await the call stands at ("create1", "upload1", "create2",
\* "upload2") or how it ended ("returned", "raised"; "idle" before the first
\* call), minted the number of ids the backend has issued.  History of the
\* call: had is the stored id it started with, attempts the upload requests
\* it sent, sent their X-Session-Id headers, created the sessions it
\* created, first the kind of its first upload response.
NoImageApi ==
    [stored |-> 0, sessionId |-> 0, phase |-> "idle", minted |-> 0,
     had |-> 0, attempts |-> 0, sent |-> << >>, created |-> 0, first |-> "none"]

(***************************************************************************)
(* utils/solutionApplier: the flat solver string.  A string is a sequence  *)
(* of characters; cubeData maps the key of a cell (`${face}${i}`, here the *)
(* pair of the face and i) to its string, the empty sequence standing both *)
(* for a key that is absent and for the empty string (both are falsy).     *)
(***************************************************************************)
\* order of cubeToKociembaString, faces of kociembaStringToCube
order == << "U", "R", "F", "D", "L", "B" >>

\* the key of the n-th iteration of the face / i loops, n from 1
cellKey(n) == << order[((n - 1) \div 9) + 1], ((n - 1) % 9) + 1 >>

CellKeys == { cellKey(n) : n \in 1..54 }

\* result after the iterations n, n + 1, ..., 54 appended to nothing
RECURSIVE appendCells(_, _)
appendCells(cubeData, n) ==
    IF n > 54 THEN << >>
    ELSE (IF cubeData[cellKey(n)] # << >> THEN cubeData[cellKey(n)] ELSE << "?" >>)
         \o appendCells(cubeData, n + 1)

\* cubeToKociembaString that takes the faces in the order U, D, F, B, L, R
cubeToKociembaString_netOrder(cubeData) ==
    LET faces == << "U", "D", "F", "B", "L", "R" >>
    IN  [n \in 1..54 |->
            LET v == cubeData[<< faces[((n - 1) \div 9) + 1], ((n - 1) % 9) + 1 >>]
            IN  IF v # << >> THEN v[1] ELSE "?"]

cubeToKociembaString(cubeData) == appendCells(cubeData, 1)

\* kociembaStringToCube: threw tells that the length check threw the Error
kociembaStringToCube(kociembaString) ==
    IF Len(kociembaString) # 54
    THEN [threw |-> TRUE, cubeData |-> [key \in CellKeys |-> << >>]]
    ELSE [threw |-> FALSE,
          cubeData |-> [key \in CellKeys |->
                           LET index == CHOOSE n \in 1..54 : cellKey(n) = key
                           IN  << kociembaString[index] >>]]

\* the values of a caller before any call
NoKociemba ==
    [cubeData |-> [key \in CellKeys |-> << >>], string |-> << >>, error |-> FALSE,
     op |-> "none"]

\* the cell values the model starts from: the letter of cell n (in the order
\* of cellKey) is letter (n * a + b) mod 6 of URFDLB, and the cells whose n is
\* a multiple of gap are absent (gap 0: none is)
cubeInput(a, b, gap) ==
    [key \in CellKeys |->
        LET n == CHOOSE m \in 1..54 : cellKey(m) = key
        IN  IF gap # 0 /\ n % gap = 0 THEN << >>
            ELSE << order[((n * a + b) % 6) + 1] >>]

CubeInputs == { cubeInput(a, b, gap) : a \in {0, 1, 5}, b \in 0..5, gap \in {0, 1, 7} }

\* the strings the model starts from: of 0, 53, 54 and 55 characters
StringInputs ==
    { [n \in 1..len |-> order[(n % 6) + 1]] : len \in {0, 53, 54, 55} }

\* a caller converts its cubeData to the solver string
encodeCube ==
    /\ kociemba' = [kociemba EXCEPT !.string = cubeToKociembaString(kociemba.cubeData),
                                    !.error = FALSE, !.op = "encode"]
    /\ UNCHANGED <<pieces, isRotating, rotationQueue, rotationState, clock, timers,
                   colorEditMode, selectedCell, waiters, aside, base, requested, opener,
                   calls, committed, selects>>

\* a caller converts its string to cubeData, keeping what it has if that throws
decodeString ==
    /\ LET r == kociembaStringToCube(kociemba.string)
       IN  kociemba' = IF r.threw
                       THEN [kociemba EXCEPT !.error = TRUE, !.op = "decode"]
                       ELSE [kociemba EXCEPT !.cubeData = r.cubeData, !.error = FALSE,
                                             !.op = "decode"]
    /\ UNCHANGED <<pieces, isRotating, rotationQueue, rotationState, clock, timers,
                   colorEditMode, selectedCell, waiters, aside, base, requested, opener,
                   calls, committed, selects>>

Init ==
    /\ pieces = initialPieces
    /\ isRotating = FALSE
    /\ rotationQueue = << >>
    /\ rotationState = idleRotationState
    /\ clock = 0
    /\ timers = << >>
    /\ colorEditMode = FALSE
    /\ selectedCell = NoCell
    /\ waiters = << >>
    /\ kociemba = NoKociemba
    /\ solution = NoSolution
    /\ viewer = NoViewer
    /\ imageApi = NoImageApi
    /\ base = initialPieces
    /\ requested = << >>
    /\ opener = call("none", "none", 0)
    /\ calls = 0
    /\ committed = << >>
    /\ selects = 0

(***************************************************************************)
(* addRotation(face, direction, duration), called once for each element of *)
(* rs by one handler: every call reads the isRotating and the pieces of    *)
(* the render the handler belongs to.  While rotating each call appends to *)
(* the queue; otherwise each call sets rotationState, so the last one      *)
(* stands.  A call made while not rotating with a face that faceMap does   *)
(* not have throws a TypeError from selectPiecesForRotation (the           *)
(* destructuring of faceMap[face]): it sets nothing and the handler that   *)
(* made it stops there.                                                    *)
(***************************************************************************)
\* the call throws
throws(face) == ~isRotating /\ face \notin Faces

\* the calls of rs that return: all of them, or those before the first that throws
returned(rs) ==
    LET bad == { i \in 1..Len(rs) : throws(rs[i].face) }
    IN  IF bad = {} THEN rs
        ELSE SubSeq(rs, 1, (CHOOSE i \in bad : \A j \in bad : i <= j) - 1)

\* the addRotation calls of one behaviour: MaxCalls, and twice as many while
\* a SolutionViewer is mounted (a half turn stepped forward and back is four)
callLimit == IF Len(viewer.moveList) = 0 THEN MaxCalls ELSE 2 * MaxCalls

addRotation(rs, c) ==
    /\ calls + Len(rs) <= callLimit
    /\ LET done == returned(rs)
       IN  /\ IF done = << >>
              THEN UNCHANGED <<rotationQueue, rotationState, isRotating>>
              ELSE IF isRotating
              THEN /\ rotationQueue' = rotationQueue \o done
                   /\ UNCHANGED <<rotationState, isRotating>>
              ELSE /\ rotationState' = startState(pieces, done[Len(done)].face,
                                                  done[Len(done)].direction,
                                                  done[Len(done)].duration)
                   /\ isRotating' = TRUE
                   /\ UNCHANGED rotationQueue
           /\ requested' = IF AtRest THEN done ELSE requested \o done
    /\ base' = IF AtRest THEN pieces ELSE base
    /\ committed' = IF AtRest THEN << >> ELSE committed
    /\ opener' = IF c.handler = "timer" THEN opener
                 ELSE IF AtRest THEN c
                 ELSE call("mixed", "none", 0)
    /\ calls' = calls + Len(rs)
    /\ UNCHANGED <<pieces, clock, waiters>>

request(face, direction, duration) ==
    [face |-> face, direction |-> direction, duration |-> duration]

\* addRotation of the cube handle (useImperativeHandle), called by a client
\* of the component with a face of `faces`
cubeRef_addRotation(faces) ==
    /\ \E face \in faces, direction \in Directions :
          addRotation(<< request(face, direction, ROTATION_DURATION) >>,
                      call("addRotation", face, direction))
    /\ UNCHANGED <<timers, editor, kociemba, aside>>

\* keyMap[key](): the addRotation call of a key (event.key.toLowerCase()) and
\* the shift state; keys without an entry do nothing and are left out
Keys == {"r", "l", "u", "d", "f", "b"}

keyMap(key, isShift) ==
    CASE key = "r" -> request("R", IF isShift THEN 1 ELSE -1, ROTATION_DURATION)
      [] key = "l" -> request("L", IF isShift THEN -1 ELSE 1, ROTATION_DURATION)
      [] key = "u" -> request("U", IF isShift THEN 1 ELSE -1, ROTATION_DURATION)
      [] key = "d" -> request("D", IF isShift THEN -1 ELSE 1, ROTATION_DURATION)
      [] key = "f" -> request("F", IF isShift THEN 1 ELSE -1, ROTATION_DURATION)
      [] key = "b" -> request("B", IF isShift THEN -1 ELSE 1, ROTATION_DURATION)

\* a key press: nothing while rotating, else keyMap[key]()
handleKeyDown ==
    /\ ~isRotating
    /\ \E key \in Keys, isShift \in BOOLEAN :
          LET r == keyMap(key, isShift)
          IN  addRotation(<< r >>, call("addRotation", r.face, r.direction))
    /\ UNCHANGED <<timers, editor, kociemba, aside>>

(***************************************************************************)
(* CubePiece reports a pointer-down with the position of the piece and the *)
(* index (0..5) of the box face that was hit; only faces on the outside of *)
(* the cube can be hit.                                                    *)
(***************************************************************************)
visible(position, faceIndex) ==
    position[(faceIndex \div 2) + 1] = (IF faceIndex % 2 = 0 THEN 1 ELSE -1)

\* App.handleCellSelect(pieceId, faceIndex); pieceId is the "x_y_z" string,
\* modelled as the tuple it is split into
handleCellSelect(pieceId, faceIndex) ==
    /\ selects < MaxSelects
    /\ IF colorEditMode
       THEN /\ selectedCell' = [pieceId |-> pieceId, faceIndex |-> faceIndex,
                                x |-> pieceId[1], y |-> pieceId[2], z |-> pieceId[3]]
            /\ selects' = selects + 1
            /\ opener' = IF AtRest THEN call("handleCellSelect", "none", 0)
                         ELSE call("mixed", "none", 0)
       ELSE UNCHANGED <<selectedCell, selects, opener>>
    /\ UNCHANGED <<pieces, isRotating, rotationQueue, rotationState, clock, timers, kociemba, aside,
                   colorEditMode, waiters, base, requested, calls, committed>>

\* a click that turns the layer whether or not the edit mode is on
handlePieceClick_turn ==
    /\ ~isRotating
    /\ \E face \in Faces, direction \in Directions :
          addRotation(<< request(face, direction, ROTATION_DURATION) >>,
                      call("addRotation", face, direction))
    /\ UNCHANGED <<timers, editor, kociemba, aside>>

\* a click on a piece: nothing while rotating; in colour edit mode the cell is
\* selected; otherwise the face the piece lies on is turned
clickRotation(position, button) ==
    LET x == position[1]
        y == position[2]
        z == position[3]
        direction == IF button = 2 THEN -1 ELSE 1
        face == IF x # 0 THEN (IF x = 1 THEN "R" ELSE "L")
                ELSE IF y # 0 THEN (IF y = 1 THEN "U" ELSE "D")
                ELSE (IF z = 1 THEN "F" ELSE "B")
    IN  request(face, direction, ROTATION_DURATION)

handlePieceClick ==
    /\ ~isRotating
    /\ \E i \in 1..Len(pieces), faceIndex \in 0..5, button \in {0, 2} :
          LET position == pieces[i].position
              face == clickRotation(position, button).face
              direction == clickRotation(position, button).direction
          IN  /\ visible(position, faceIndex)
              /\ IF colorEditMode
                 THEN handleCellSelect(position, faceIndex)
                 ELSE /\ addRotation(<< request(face, direction, ROTATION_DURATION) >>,
                                     call("addRotation", face, direction))
                      /\ UNCHANGED <<timers, editor, kociemba, aside>>

(***************************************************************************)
(* useFrame callback, run on an animation frame while a turn is in flight. *)
(* When the turn it commits is followed by a queued request whose face     *)
(* faceMap does not have, selectPiecesForRotation throws after setPieces   *)
(* and setRotationQueue have been called: those two updates are applied,   *)
(* rotationState and isRotating are left as they are.                      *)
(***************************************************************************)
\* progress >= 1, progress being Math.min(elapsed / duration, 1)
progressComplete(elapsed, duration) == elapsed >= duration

useFrame ==
    /\ isRotating
    /\ rotationState.axis # "null"
    /\ clock' = clock + FrameMs
    /\ LET currentTime == clock'
           elapsed == currentTime - rotationState.startTime
       IN  IF rotationState.startTime = 0
           THEN /\ rotationState' = [rotationState EXCEPT !.startTime = currentTime]
                /\ UNCHANGED <<pieces, isRotating, rotationQueue, committed>>
           ELSE IF progressComplete(elapsed, rotationState.duration)
           THEN /\ pieces' = commitPieces(pieces, rotationState)
                /\ committed' = Append(committed, request(rotationState.face,
                                                          rotationState.direction,
                                                          rotationState.duration))
                /\ IF Len(rotationQueue) > 0
                   THEN LET nextRotation == rotationQueue[1]
                        IN  /\ rotationQueue' = Tail(rotationQueue)
                            /\ IF nextRotation.face \in Faces
                               THEN rotationState' = startState(pieces, nextRotation.face,
                                                                nextRotation.direction,
                                                                nextRotation.duration)
                               ELSE UNCHANGED rotationState
                            /\ UNCHANGED isRotating
                   ELSE /\ rotationState' = idleRotationState
                        /\ isRotating' = FALSE
                        /\ UNCHANGED rotationQueue
           ELSE UNCHANGED <<pieces, isRotating, rotationQueue, rotationState, committed>>
    /\ UNCHANGED <<timers, editor, kociemba, aside, waiters, base, requested, opener, calls>>

(***************************************************************************)
(* shuffle: shuffleCount random addRotation calls in one loop.             *)
(***************************************************************************)
shuffle ==
    /\ calls + ShuffleLen <= MaxCalls
    /\ \E rs \in [1..ShuffleLen -> [face : Faces, direction : Directions,
                                    duration : {SHUFFLE_ROTATION_DURATION}]] :
          addRotation(rs, call("shuffle", "none", 0))
    /\ UNCHANGED <<timers, editor, kociemba, aside>>

(***************************************************************************)
(* reset: setRotationQueue([]); setPieces(initialPieces).                  *)
(***************************************************************************)
\* a reset that also clears the rotating flag
reset_idle ==
    /\ rotationQueue' = << >>
    /\ pieces' = initialPieces
    /\ base' = initialPieces
    /\ requested' = << >>
    /\ committed' = << >>
    /\ opener' = call("reset", "none", 0)
    /\ isRotating' = FALSE
    /\ UNCHANGED <<rotationState, clock, timers, editor, kociemba, aside, waiters, calls>>

reset ==
    /\ rotationQueue' = << >>
    /\ pieces' = initialPieces
    /\ base' = initialPieces
    /\ requested' = << >>
    /\ committed' = << >>
    /\ opener' = call("reset", "none", 0)
    /\ UNCHANGED <<isRotating, rotationState, clock, timers, editor, kociemba, aside, waiters, calls>>

(***************************************************************************)
(* Solver move tokens are sequences of characters: <<"R">>, <<"R", "'">>,  *)
(* <<"R", "2">>.                                                           *)
(***************************************************************************)
Tokens == { <<f>> : f \in Faces } \cup { <<f, m>> : f \in Faces, m \in {"'", "2"} }

\* tokens with a letter that is no face, or with a modifier other than ' and 2
MalformedTokens == { <<"X">>, <<"R", "3">> }

\* move.includes(ch)
moveIncludes(move, ch) == \E i \in 1..Len(move) : move[i] = ch

parseMove(move) ==
    [face |-> move[1],
     rotation |-> IF moveIncludes(move, "2") THEN 2
                  ELSE IF moveIncludes(move, "'") THEN -1
                  ELSE 1]

\* Array.prototype.reverse
Reverse(array) == [i \in 1..Len(array) |-> array[Len(array) + 1 - i]]

\* reverseSolution that returns every move as it is
reverseSolution_same(moves) == Reverse(moves)

\* the array reverseSolution returns
reverseSolution(moves) ==
    [i \in 1..Len(moves) |->
        LET move == Reverse(moves)[i]
            face == parseMove(move).face
            rotation == parseMove(move).rotation
        IN  IF rotation = 2 THEN << face, "2" >>
            ELSE IF rotation = 1 THEN << face, "'" >>
            ELSE << face >>]

\* the move arrays a caller holds: up to MaxMoves well-formed tokens
MoveLists == UNION { [1..n -> Tokens] : n \in 0..MaxMoves }

\* a caller passes its move array to reverseSolution: moves.reverse() reverses
\* that array in place, the mapped copy is returned
callReverseSolution ==
    /\ solution' = [moves |-> Reverse(solution.moves),
                    reversed |-> reverseSolution(solution.moves),
                    op |-> "reverse"]
    /\ UNCHANGED <<pieces, isRotating, rotationQueue, rotationState, clock, timers,
                   colorEditMode, selectedCell, waiters, kociemba, viewer, imageApi,
                   base, requested, opener, calls, committed, selects>>

\* the direction handleApplyMove and handleAutoSolve pass to addRotation
moveDirection(face, rotation) ==
    LET direction == IF rotation = -1 THEN 1 ELSE -1
    IN  IF face = "L" \/ face = "D" \/ face = "B" THEN -direction ELSE direction

\* Math.abs(rotation)
MathAbs(n) == IF n < 0 THEN -n ELSE n

(***************************************************************************)
(* handleApplyMove(face, rotation): one addRotation now and, for a half    *)
(* turn, a second one from a 50 ms timer.                                  *)
(***************************************************************************)
\* a half turn served as a single quarter turn
rotationsOf_single(rotation) == 1

\* let rotations = Math.abs(rotation) === 2 ? 2 : 1
rotationsOf(rotation) == IF MathAbs(rotation) = 2 THEN 2 ELSE 1

\* move is the token (face, rotation) was parsed from; only opener records it
handleApplyMove(face, rotation, move) ==
    LET direction == moveDirection(face, rotation)
        rotations == rotationsOf(rotation)
    IN  /\ calls + rotations <= callLimit
        /\ timers' = IF rotations = 2 /\ ~throws(face)
                     THEN Append(timers, request(face, direction, ROTATION_DURATION))
                     ELSE timers
        /\ addRotation(<< request(face, direction, ROTATION_DURATION) >>,
                       [call("handleApplyMove", face, rotation) EXCEPT !.move = << move >>])
        /\ UNCHANGED <<editor, kociemba, solution, imageApi>>

\* the setTimeout callback of handleApplyMove
applyMoveTimer ==
    /\ timers # << >>
    /\ timers' = Tail(timers)
    /\ addRotation(<< Head(timers) >>, call("timer", "none", 0))
    /\ UNCHANGED <<editor, kociemba, aside>>

\* SolutionViewer: the next move of the list is parsed and handed to
\* onApplyMove = handleApplyMove
handleNextStep(tokens) ==
    /\ \E move \in tokens :
          handleApplyMove(parseMove(move).face, parseMove(move).rotation, move)
    /\ UNCHANGED viewer

(***************************************************************************)
(* handleAutoSolve: every move of solution.moves in one forEach.           *)
(***************************************************************************)
RECURSIVE autoSolveCalls(_)
autoSolveCalls(moves) ==
    IF moves = << >> THEN << >>
    ELSE LET m == parseMove(Head(moves))
             r == request(m.face, moveDirection(m.face, m.rotation), AUTO_SOLVE_DURATION)
         IN  (IF MathAbs(m.rotation) = 2 THEN << r, r >> ELSE << r >>)
             \o autoSolveCalls(Tail(moves))

handleAutoSolve ==
    /\ calls < MaxCalls
    /\ \E n \in 1..MaxMoves : \E moves \in [1..n -> Tokens] :
          addRotation(autoSolveCalls(moves),
                      [call("handleAutoSolve", "none", 0) EXCEPT !.move = moves])
    /\ UNCHANGED <<timers, editor, kociemba, aside>>

(***************************************************************************)
(* The sticker editor of App.                                              *)
(***************************************************************************)
\* the colour of ColorPicker that the model lets the user pick
PickerColors == {COLORS.blue}

\* a toggle that keeps the selection
handleColorEditToggle_keep ==
    /\ colorEditMode' = ~colorEditMode
    /\ opener' = call("mixed", "none", 0)
    /\ UNCHANGED <<pieces, isRotating, rotationQueue, rotationState, clock, timers, kociemba, aside, waiters,
                   base, requested, calls, committed, selects, selectedCell>>

handleColorEditToggle ==
    /\ colorEditMode' = ~colorEditMode
    /\ selectedCell' = NoCell
    /\ opener' = call("mixed", "none", 0)
    /\ UNCHANGED <<pieces, isRotating, rotationQueue, rotationState, clock, timers, kociemba, aside, waiters,
                   base, requested, calls, committed, selects>>

\* convertNetTo3DCoords that does not mirror the rows of D
convertNetTo3DCoords_plainD(face, row, col) ==
    CASE face = "U" -> [x |-> col - 1, y |-> 1, z |-> row - 1]
      [] face = "D" -> [x |-> col - 1, y |-> -1, z |-> row - 1]
      [] face = "F" -> [x |-> col - 1, y |-> 1 - row, z |-> 1]
      [] face = "B" -> [x |-> 1 - col, y |-> 1 - row, z |-> -1]
      [] face = "L" -> [x |-> -1, y |-> 1 - row, z |-> col - 1]
      [] face = "R" -> [x |-> 1, y |-> 1 - row, z |-> 1 - col]
      [] OTHER -> [x |-> 0, y |-> 0, z |-> 0]

\* the position a cell of the net stands for
convertNetTo3DCoords(face, row, col) ==
    CASE face = "U" -> [x |-> col - 1, y |-> 1, z |-> row - 1]
      [] face = "D" -> [x |-> col - 1, y |-> -1, z |-> 1 - row]
      [] face = "F" -> [x |-> col - 1, y |-> 1 - row, z |-> 1]
      [] face = "B" -> [x |-> 1 - col, y |-> 1 - row, z |-> -1]
      [] face = "L" -> [x |-> -1, y |-> 1 - row, z |-> col - 1]
      [] face = "R" -> [x |-> 1, y |-> 1 - row, z |-> 1 - col]
      [] OTHER -> [x |-> 0, y |-> 0, z |-> 0]

\* faceIndexMap[face] || 0
faceIndexMap(face) ==
    CASE face = "R" -> 0 [] face = "L" -> 1 [] face = "U" -> 2
      [] face = "D" -> 3 [] face = "F" -> 4 [] face = "B" -> 5 [] OTHER -> 0

\* a click on cell (row, col) of a face of the net; the selected cell has no
\* pieceId (its face and gridIndex fields only serve the highlight)
handleNetCellSelect ==
    /\ selects < MaxSelects
    /\ \E face \in Faces, row \in 0..2, col \in 0..2 :
          LET coords == convertNetTo3DCoords(face, row, col)
          IN  IF colorEditMode
              THEN /\ selectedCell' = [pieceId |-> NoId, faceIndex |-> faceIndexMap(face),
                                       x |-> coords.x, y |-> coords.y, z |-> coords.z]
                   /\ selects' = selects + 1
                   /\ opener' = IF AtRest THEN call("handleNetCellSelect", "none", 0)
                                ELSE call("mixed", "none", 0)
              ELSE UNCHANGED <<selectedCell, selects, opener>>
    /\ UNCHANGED <<pieces, isRotating, rotationQueue, rotationState, clock, timers, kociemba, aside,
                   colorEditMode, waiters, base, requested, calls, committed>>

\* the setPieces updater of updatePieceFaceColor(pieceId, faceIndex, color)
updatePieceFaceColor(prevPieces, pieceId, faceIndex, color) ==
    [i \in 1..Len(prevPieces) |->
        IF prevPieces[i].id = pieceId
        THEN [prevPieces[i] EXCEPT !.faceColors[faceIndex + 1] = color]
        ELSE prevPieces[i]]

\* a colour of the picker is chosen: it is applied to the selected cell
handleColorSelect ==
    /\ \E colorNumber \in PickerColors :
          IF selectedCell # NoCell
          THEN LET pieceId == IF selectedCell.pieceId # NoId THEN selectedCell.pieceId
                              ELSE << selectedCell.x, selectedCell.y, selectedCell.z >>
               IN  /\ pieces' = updatePieceFaceColor(pieces, pieceId, selectedCell.faceIndex,
                                                     colorNumber)
                   /\ selectedCell' = NoCell
                   /\ opener' = IF AtRest /\ opener.handler \in {"handleCellSelect",
                                                                 "handleNetCellSelect"}
                                THEN [call("handleColorSelect", "none", colorNumber)
                                      EXCEPT !.cell = selectedCell]
                                ELSE call("mixed", "none", 0)
                   /\ base' = IF AtRest THEN pieces ELSE base
                   /\ requested' = IF AtRest THEN << >> ELSE requested
                   /\ committed' = IF AtRest THEN << >> ELSE committed
          ELSE UNCHANGED <<pieces, selectedCell, opener, base, requested, committed>>
    /\ UNCHANGED <<isRotating, rotationQueue, rotationState, clock, timers, kociemba, aside,
                   colorEditMode, waiters, calls, selects>>

\* the isMoving getter of the cube handle
isMoving == isRotating \/ Len(rotationQueue) > 0

(***************************************************************************)
(* setPieces of the cube handle.  While a turn is in flight or queued it   *)
(* starts waitForRotationComplete, a closure over the isRotating and the   *)
(* rotationQueue of the render the handle was made in, which re-arms a     *)
(* 100 ms timer until it finds them idle.                                  *)
(***************************************************************************)
\* the piece arrays the model hands to setPieces: a turned cube, an array of
\* 25 pieces, and 26 pieces two of which share a position
ReplaceInputs ==
    << turnPieces(initialPieces, "U", 1),
       SubSeq(initialPieces, 1, 25),
       [initialPieces EXCEPT ![2].position = initialPieces[1].position] >>

cubeRef_setPieces ==
    /\ \E k \in 1..Len(ReplaceInputs) :
          LET newPieces == ReplaceInputs[k]
          IN  /\ IF isRotating \/ Len(rotationQueue) > 0
                 THEN /\ Len(waiters) < MaxWaiters
                      /\ waiters' = Append(waiters, [newPieces |-> newPieces,
                                                     isRotating |-> isRotating,
                                                     queueLength |-> Len(rotationQueue)])
                      /\ UNCHANGED pieces
                 ELSE /\ pieces' = newPieces
                      /\ UNCHANGED waiters
              /\ opener' = IF AtRest THEN call("setPieces", "none", k)
                           ELSE call("mixed", "none", 0)
    /\ base' = IF AtRest THEN pieces ELSE base
    /\ requested' = IF AtRest THEN << >> ELSE requested
    /\ committed' = IF AtRest THEN << >> ELSE committed
    /\ UNCHANGED <<isRotating, rotationQueue, rotationState, clock, timers, editor, kociemba, aside, calls>>

\* the 100 ms timer of a waiting setPieces fires
waitForRotationComplete ==
    /\ waiters # << >>
    /\ LET waiter == Head(waiters)
       IN  IF ~waiter.isRotating /\ waiter.queueLength = 0
           THEN /\ pieces' = waiter.newPieces
                /\ waiters' = Tail(waiters)
           ELSE UNCHANGED <<pieces, waiters>>
    /\ UNCHANGED <<isRotating, rotationQueue, rotationState, clock, timers, editor, kociemba, aside,
                   base, requested, opener, calls, committed>>

(***************************************************************************)
(* components/SolutionViewer.  The buttons are disabled as the last render *)
(* says; the queue effect runs as a step of its own after the render that  *)
(* changed moveQueue or isProcessing, so a click can come before it.       *)
(***************************************************************************)
\* initialCubeState of App: the pieces when the solution was made
initialCubeState == initialPieces

\* the tokens of the move lists the model mounts the viewer with
ViewerTokens == { << "U", "'" >>, << "F", "2" >> }

\* an entry of moveQueue
queued(move, rotation, targetStep, back) ==
    [face |-> parseMove(move).face, rotation |-> rotation, targetStep |-> targetStep,
     move |-> move, back |-> back]

\* onReset = handleResetToScrambled: setPieces of the cube handle with a copy
\* of initialCubeState
handleResetToScrambled ==
    /\ IF isRotating \/ Len(rotationQueue) > 0
       THEN /\ Len(waiters) < MaxWaiters
            /\ waiters' = Append(waiters, [newPieces |-> initialCubeState,
                                           isRotating |-> isRotating,
                                           queueLength |-> Len(rotationQueue)])
            /\ UNCHANGED pieces
       ELSE /\ pieces' = initialCubeState
            /\ UNCHANGED waiters
    /\ opener' = IF AtRest THEN call("setPieces", "none", 0) ELSE call("mixed", "none", 0)
    /\ base' = IF AtRest THEN pieces ELSE base
    /\ requested' = IF AtRest THEN << >> ELSE requested
    /\ committed' = IF AtRest THEN << >> ELSE committed
    /\ UNCHANGED <<isRotating, rotationQueue, rotationState, clock, timers, calls>>

\* the cube is left alone
cubeUnchanged ==
    UNCHANGED <<pieces, isRotating, rotationQueue, rotationState, clock, timers, waiters,
                base, requested, opener, calls, committed>>

\* the queue effect: the head of moveQueue is handed to onApplyMove, its
\* stepUpdate sets currentStep, and the wait timer is started
processQueue ==
    /\ Len(viewer.moveQueue) > 0
    /\ ~viewer.isProcessing
    /\ LET nextMove == viewer.moveQueue[1]
       IN  /\ handleApplyMove(nextMove.face, nextMove.rotation, nextMove.move)
           /\ viewer' = [viewer EXCEPT
                  !.isProcessing = TRUE,
                  !.currentStep = nextMove.targetStep,
                  !.waitTimers = @ + 1,
                  !.forward = IF nextMove.back THEN @ ELSE @ + 1,
                  !.backward = IF nextMove.back THEN @ + 1 ELSE @,
                  !.dispatched = Append(@, [face |-> nextMove.face,
                                            rotation |-> nextMove.rotation,
                                            back |-> nextMove.back,
                                            step |-> viewer.currentStep,
                                            atRest |-> AtRest]),
                  !.snapshot = IF nextMove.back THEN @ ELSE pieces]

\* the setTimeout callback of the queue effect
waitTimer ==
    /\ viewer.waitTimers > 0
    /\ viewer' = [viewer EXCEPT
           !.moveQueue = IF Len(@) > 0 THEN Tail(@) ELSE @,
           !.isProcessing = FALSE,
           !.isPending = FALSE,
           !.waitTimers = @ - 1]
    /\ cubeUnchanged
    /\ UNCHANGED <<editor, kociemba, solution, imageApi>>

viewer_handleNextStep ==
    /\ viewer.currentStep < Len(viewer.moveList) /\ ~viewer.isProcessing
    /\ IF viewer.currentStep >= Len(viewer.moveList) \/ viewer.isPending
       THEN UNCHANGED viewer
       ELSE LET move == viewer.moveList[viewer.currentStep + 1]
                nextStep == viewer.currentStep + 1
            IN  viewer' = [viewer EXCEPT
                    !.isPending = TRUE,
                    !.moveQueue = Append(@, queued(move, parseMove(move).rotation,
                                                   nextStep, FALSE)),
                    !.interrupted = TRUE]
    /\ cubeUnchanged
    /\ UNCHANGED <<editor, kociemba, solution, imageApi>>

\* handlePrevStep that queues the rotation of the move as it is
viewer_handlePrevStep_same ==
    /\ viewer.currentStep # 0 /\ ~viewer.isProcessing
    /\ IF viewer.currentStep <= 0 \/ viewer.isPending
       THEN UNCHANGED viewer
       ELSE LET move == viewer.moveList[viewer.currentStep]
                prevStep == viewer.currentStep - 1
            IN  viewer' = [viewer EXCEPT
                    !.isPending = TRUE,
                    !.moveQueue = Append(@, queued(move, parseMove(move).rotation,
                                                   prevStep, TRUE)),
                    !.interrupted = TRUE]
    /\ cubeUnchanged
    /\ UNCHANGED <<editor, kociemba, solution, imageApi>>

viewer_handlePrevStep ==
    /\ viewer.currentStep # 0 /\ ~viewer.isProcessing
    /\ IF viewer.currentStep <= 0 \/ viewer.isPending
       THEN UNCHANGED viewer
       ELSE LET move == viewer.moveList[viewer.currentStep]
                rotation == parseMove(move).rotation
                prevStep == viewer.currentStep - 1
            IN  viewer' = [viewer EXCEPT
                    !.isPending = TRUE,
                    !.moveQueue = Append(@, queued(move, IF rotation = 2 THEN 2
                                                         ELSE -rotation,
                                                   prevStep, TRUE)),
                    !.interrupted = TRUE]
    /\ cubeUnchanged
    /\ UNCHANGED <<editor, kociemba, solution, imageApi>>

\* handleAutoPlay that queues the remaining moves last to first
remainingMoves_reversed(moveList, from) ==
    [index \in 1..(Len(moveList) - from) |->
        queued(moveList[Len(moveList) + 1 - index],
               parseMove(moveList[Len(moveList) + 1 - index]).rotation,
               from + index, FALSE)]

\* the entries handleAutoPlay makes for the moves from index `from` on
remainingMoves(moveList, from) ==
    [index \in 1..(Len(moveList) - from) |->
        queued(moveList[from + index], parseMove(moveList[from + index]).rotation,
               from + index, FALSE)]

viewer_handleAutoPlay ==
    /\ Len(viewer.moveList) > 0
    /\ ~(viewer.isProcessing /\ ~viewer.autoPlay)
    /\ IF viewer.autoPlay
       THEN /\ viewer' = [viewer EXCEPT !.autoPlay = FALSE, !.moveQueue = << >>,
                                        !.isPending = FALSE, !.interrupted = TRUE]
            /\ cubeUnchanged
       ELSE IF viewer.currentStep >= Len(viewer.moveList)
       THEN /\ viewer' = [viewer EXCEPT !.currentStep = 0, !.forward = 0, !.backward = 0,
                                        !.dispatched = << >>, !.interrupted = TRUE]
            /\ handleResetToScrambled
       ELSE IF viewer.isPending
       THEN UNCHANGED viewer /\ cubeUnchanged
       ELSE /\ viewer' = [viewer EXCEPT
                   !.isPending = TRUE,
                   !.moveQueue = @ \o remainingMoves(viewer.moveList, viewer.currentStep),
                   !.autoPlay = TRUE,
                   !.playFrom = viewer.currentStep,
                   !.playAt = Len(viewer.dispatched),
                   !.interrupted = FALSE]
            /\ cubeUnchanged
    /\ UNCHANGED <<editor, kociemba, solution, imageApi>>

viewer_handleReset ==
    /\ Len(viewer.moveList) > 0
    /\ ~viewer.isProcessing
    /\ viewer' = [viewer EXCEPT !.autoPlay = FALSE, !.currentStep = 0, !.moveQueue = << >>,
                                !.isPending = FALSE, !.forward = 0, !.backward = 0,
                                !.dispatched = << >>, !.interrupted = TRUE]
    /\ handleResetToScrambled
    /\ UNCHANGED <<editor, kociemba, solution, imageApi>>

(***************************************************************************)
(* utils/imageApi: uploadImageToBackend, one call at a time, against a     *)
(* backend that answers each request as it likes.  A step is the code from *)
(* one await to the next.                                                  *)
(***************************************************************************)
imageApiOnly ==
    UNCHANGED <<pieces, isRotating, rotationQueue, rotationState, clock, timers,
                colorEditMode, selectedCell, waiters, kociemba, solution, viewer,
                base, requested, opener, calls, committed, selects>>

\* the call is made: getSessionId, then the create-session request or the
\* first upload request is sent
uploadImageToBackend ==
    /\ imageApi.phase \in {"idle", "returned", "raised"}
    /\ imageApi' = IF imageApi.stored = 0
                   THEN [imageApi EXCEPT !.sessionId = 0, !.phase = "create1",
                                         !.had = 0, !.attempts = 0, !.sent = << >>,
                                         !.created = 0, !.first = "none"]
                   ELSE [imageApi EXCEPT !.sessionId = imageApi.stored, !.phase = "upload1",
                                         !.had = imageApi.stored, !.attempts = 1,
                                         !.sent = << imageApi.stored >>,
                                         !.created = 0, !.first = "none"]
    /\ imageApiOnly

\* createSession gets its response: an id, which it stores, or a failure,
\* which it throws; with the id the upload request is sent
createSession ==
    /\ imageApi.phase \in {"create1", "create2"}
    /\ \E ok \in BOOLEAN :
          IF ok
          THEN /\ imageApi.minted < MaxSessions
               /\ imageApi' = [imageApi EXCEPT
                      !.minted = @ + 1,
                      !.stored = imageApi.minted + 1,
                      !.sessionId = imageApi.minted + 1,
                      !.created = @ + 1,
                      !.attempts = @ + 1,
                      !.sent = Append(@, imageApi.minted + 1),
                      !.phase = IF imageApi.phase = "create1" THEN "upload1" ELSE "upload2"]
          ELSE imageApi' = [imageApi EXCEPT !.phase = "raised"]
    /\ imageApiOnly

\* the responses of the backend to an upload: accepted, rejected for its
\* session (detail names the invalid session or X-Session-Id), rejected or
\* failed otherwise
UploadResponses == {"ok", "invalid", "other"}

\* an upload response that is answered with a new session whatever failed
uploadResponse_retryAll ==
    /\ imageApi.phase \in {"upload1", "upload2"}
    /\ \E response \in UploadResponses :
          imageApi' =
              IF response = "ok"
              THEN [imageApi EXCEPT !.phase = "returned",
                                    !.first = IF imageApi.phase = "upload1" THEN "ok" ELSE @]
              ELSE IF imageApi.phase = "upload1"
              THEN [imageApi EXCEPT !.stored = 0, !.phase = "create2", !.first = response]
              ELSE [imageApi EXCEPT !.phase = "raised"]
    /\ imageApiOnly

\* an upload request gets its response
uploadResponse ==
    /\ imageApi.phase \in {"upload1", "upload2"}
    /\ \E response \in UploadResponses :
          imageApi' =
              IF response = "ok"
              THEN [imageApi EXCEPT !.phase = "returned",
                                    !.first = IF imageApi.phase = "upload1" THEN "ok" ELSE @]
              ELSE IF imageApi.phase = "upload1" /\ response = "invalid"
              THEN [imageApi EXCEPT !.stored = 0, !.phase = "create2", !.first = "invalid"]
              ELSE [imageApi EXCEPT !.phase = "raised",
                                    !.first = IF imageApi.phase = "upload1" THEN response ELSE @]
    /\ imageApiOnly

\* every face letter a client may pass, one of them unknown to faceMap
AnyFaces == Faces \cup {"X"}

\* turns requested one at a time, and animation frames
NextTurns == cubeRef_addRotation(Faces) \/ handleKeyDown \/ handlePieceClick \/ useFrame
SpecTurns == Init /\ [][NextTurns]_vars
\* the frame loop runs on every animation frame
FairTurns == SpecTurns /\ WF_vars(useFrame)

\* the methods of the cube handle that write the rotating flag and the queue
NextBusy ==
    \/ cubeRef_addRotation(AnyFaces)
    \/ shuffle
    \/ reset
    \/ useFrame
SpecBusy == Init /\ [][NextBusy]_vars

\* the three inputs that turn a layer: keys, pointer clicks, solver tokens
NextInputs ==
    \/ handleKeyDown
    \/ handlePieceClick
    \/ handleNextStep(Tokens)
    \/ applyMoveTimer
    \/ useFrame
SpecInputs == Init /\ [][NextInputs]_vars

\* turns requested by key presses only: one at a time, none queued
NextKeys == handleKeyDown \/ useFrame
SpecKeys == Init /\ [][NextKeys]_vars

\* single solver moves applied one by one, to the canonical cube or to a cube
\* on which the user has turned the front face once
InitApply ==
    /\ pieces \in {initialPieces, turnPieces(initialPieces, "F", 1)}
    /\ isRotating = FALSE
    /\ rotationQueue = << >>
    /\ rotationState = idleRotationState
    /\ clock = 0
    /\ timers = << >>
    /\ colorEditMode = FALSE
    /\ selectedCell = NoCell
    /\ waiters = << >>
    /\ kociemba = NoKociemba
    /\ solution = NoSolution
    /\ viewer = NoViewer
    /\ imageApi = NoImageApi
    /\ base = pieces
    /\ requested = << >>
    /\ opener = call("none", "none", 0)
    /\ calls = 0
    /\ committed = << >>
    /\ selects = 0
NextApply == handleNextStep(Tokens) \/ applyMoveTimer \/ useFrame
SpecApply == InitApply /\ [][NextApply]_vars

\* turns requested by a client and whole solver move lists
NextSolve == cubeRef_addRotation(Faces) \/ handleAutoSolve \/ useFrame
SpecSolve == Init /\ [][NextSolve]_vars

\* scramble and reset
NextScramble == shuffle \/ reset \/ useFrame
SpecScramble == Init /\ [][NextScramble]_vars

\* the sticker editor, with turns made from the keyboard
NextEdit ==
    \/ handleColorEditToggle
    \/ handlePieceClick
    \/ handleNetCellSelect
    \/ handleColorSelect
    \/ handleKeyDown
    \/ useFrame
SpecEdit == Init /\ [][NextEdit]_vars

\* the handlers that write the state of App's editor: the mode toggle, clicks
\* on pieces and on the net, the colour picker.  A click outside edit mode
\* starts a turn, which is not animated here.
NextSelect ==
    \/ handleColorEditToggle
    \/ handlePieceClick
    \/ handleNetCellSelect
    \/ handleColorSelect
SpecSelect == Init /\ [][NextSelect]_vars

\* bulk replaces and turns; frames and the 100 ms timer keep running
NextReplace ==
    \/ cubeRef_addRotation(Faces)
    \/ cubeRef_setPieces
    \/ waitForRotationComplete
    \/ useFrame
SpecReplace == Init /\ [][NextReplace]_vars
FairReplace == SpecReplace /\ WF_vars(useFrame) /\ WF_vars(waitForRotationComplete)

\* everything that writes the pieces: turns, a sticker edit, bulk replaces
\* and reset.  The editor is open and the user has selected, on the net, the
\* cell of F at the corner of U and R; the turns are those of F and R.
InitAtomic ==
    /\ pieces = initialPieces
    /\ isRotating = FALSE
    /\ rotationQueue = << >>
    /\ rotationState = idleRotationState
    /\ clock = 0
    /\ timers = << >>
    /\ colorEditMode = TRUE
    /\ selectedCell = [pieceId |-> NoId, faceIndex |-> faceIndexMap("F"),
                       x |-> convertNetTo3DCoords("F", 0, 2).x,
                       y |-> convertNetTo3DCoords("F", 0, 2).y,
                       z |-> convertNetTo3DCoords("F", 0, 2).z]
    /\ waiters = << >>
    /\ kociemba = NoKociemba
    /\ solution = NoSolution
    /\ viewer = NoViewer
    /\ imageApi = NoImageApi
    /\ base = initialPieces
    /\ requested = << >>
    /\ opener = call("handleNetCellSelect", "none", 0)
    /\ calls = 0
    /\ committed = << >>
    /\ selects = 1
NextAtomic ==
    \/ cubeRef_addRotation({"F", "R"})
    \/ useFrame
    \/ handleColorSelect
    \/ cubeRef_setPieces
    \/ waitForRotationComplete
    \/ reset
SpecAtomic == InitAtomic /\ [][NextAtomic]_vars

\* turns requested by a client that may pass any face letter
NextFaces == cubeRef_addRotation(AnyFaces) \/ useFrame
SpecFaces == Init /\ [][NextFaces]_vars

\* solver tokens, well formed or not, applied one by one or as a list
NextTokens ==
    \/ handleNextStep(Tokens \cup MalformedTokens)
    \/ applyMoveTimer
    \/ handleAutoSolve
    \/ useFrame
SpecTokens == Init /\ [][NextTokens]_vars

(***************************************************************************)
(* utils/cubeColorLoader: the colour grids exchanged with the solver.      *)
(* A grid value cubeData maps a face to rows 0..2 of columns 0..2 of       *)
(* colour characters ("" for an empty cell).                               *)
(***************************************************************************)
COLOR_MAPPING ==
    [r |-> 12852794, g |-> 40544, b |-> 20922, o |-> 16734208,
     y |-> 16766208, w |-> 16777215, black |-> 2171169]

\* Object.entries(COLOR_MAPPING) key order
colorChars == << "r", "g", "b", "o", "y", "w", "black" >>

\* FACE_INDEX_MAPPING with the indices of R and L exchanged
FACE_INDEX_MAPPING_swapped(face) ==
    CASE face = "R" -> 2 [] face = "L" -> 1 [] face = "U" -> 3
      [] face = "D" -> 4 [] face = "F" -> 5 [] face = "B" -> 6

\* FACE_INDEX_MAPPING, as a 1-based index into faceColors
FACE_INDEX_MAPPING(face) ==
    CASE face = "R" -> 1 [] face = "L" -> 2 [] face = "U" -> 3
      [] face = "D" -> 4 [] face = "F" -> 5 [] face = "B" -> 6

\* key order of the cubeData literal of convertCubePiecesToJson
jsonFaces == << "U", "R", "F", "D", "L", "B" >>

convertFaceCoordTo3D(face, row, col) ==
    CASE face = "F" -> [x |-> col - 1, y |-> 1 - row, z |-> 1]
      [] face = "B" -> [x |-> 1 - col, y |-> 1 - row, z |-> -1]
      [] face = "L" -> [x |-> -1, y |-> 1 - row, z |-> 1 - col]
      [] face = "R" -> [x |-> 1, y |-> 1 - row, z |-> col - 1]
      [] face = "U" -> [x |-> col - 1, y |-> 1, z |-> row - 1]
      [] face = "D" -> [x |-> col - 1, y |-> -1, z |-> 1 - row]

\* convertColorCharToHex that falls back to white
convertColorCharToHex_white(colorChar) ==
    IF colorChar \in DOMAIN COLOR_MAPPING THEN COLOR_MAPPING[colorChar]
    ELSE COLOR_MAPPING["w"]

\* COLOR_MAPPING[colorChar] || COLOR_MAPPING['black']
convertColorCharToHex(colorChar) ==
    IF colorChar \in DOMAIN COLOR_MAPPING THEN COLOR_MAPPING[colorChar]
    ELSE COLOR_MAPPING["black"]

\* first entry of COLOR_MAPPING with that hex value, else 'black'
convertHexToColorChar(hexColor) ==
    LET hits == { k \in 1..Len(colorChars) : COLOR_MAPPING[colorChars[k]] = hexColor }
    IN  IF hits = {} THEN "black"
        ELSE colorChars[CHOOSE k \in hits : \A h \in hits : k <= h]

\* the blank piece array convertJsonToCubePieces starts from
blankPieces ==
    [i \in 1..Len(initialPieces) |->
        [initialPieces[i] EXCEPT !.faceColors = [j \in 1..6 |-> COLOR_MAPPING["black"]]]]

\* pieces.find(p => p.position is coord3D): index of the first match, 0 if none
findPiece(ps, coord3D) ==
    LET hits == { k \in 1..Len(ps) : ps[k].position = << coord3D.x, coord3D.y, coord3D.z >> }
    IN  IF hits = {} THEN 0 ELSE CHOOSE k \in hits : \A h \in hits : k <= h

\* the face / row / col loops of convertJsonToCubePieces: slot faceIndex of
\* piece k ends with the colour of the last cell (in loop order) of a face of
\* that index whose coordinate finds piece k, and stays black without one
convertJsonToCubePieces(cubeData) ==
    [k \in 1..Len(blankPieces) |->
        [blankPieces[k] EXCEPT !.faceColors =
            [j \in 1..6 |->
                LET cells == { n \in 0..(9 * Len(jsonFaces) - 1) :
                                  LET face == jsonFaces[(n \div 9) + 1]
                                  IN  /\ face \in DOMAIN cubeData
                                      /\ FACE_INDEX_MAPPING(face) = j
                                      /\ findPiece(blankPieces,
                                                   convertFaceCoordTo3D(face, (n \div 3) % 3, n % 3)) = k }
                IN  IF cells = {} THEN COLOR_MAPPING["black"]
                    ELSE LET n == CHOOSE c \in cells : \A d \in cells : d <= c
                         IN  convertColorCharToHex(cubeData[jsonFaces[(n \div 9) + 1]][(n \div 3) % 3][n % 3])]]]

get3DCoordFaceInfo(x, y, z) ==
       (IF y = 1 THEN << [face |-> "U", row |-> z + 1, col |-> x + 1] >> ELSE << >>)
    \o (IF y = -1 THEN << [face |-> "D", row |-> (-z) + 1, col |-> x + 1] >> ELSE << >>)
    \o (IF x = 1 THEN << [face |-> "R", row |-> (-y) + 1, col |-> (-z) + 1] >> ELSE << >>)
    \o (IF x = -1 THEN << [face |-> "L", row |-> (-y) + 1, col |-> z + 1] >> ELSE << >>)
    \o (IF z = 1 THEN << [face |-> "F", row |-> (-y) + 1, col |-> x + 1] >> ELSE << >>)
    \o (IF z = -1 THEN << [face |-> "B", row |-> (-y) + 1, col |-> (-x) + 1] >> ELSE << >>)

\* the pieces.forEach / faceInfos.forEach of convertCubePiecesToJson: a cell
\* ends with the colour character of the last piece (in array order) that has
\* a face info for it and a colour other than black there, and stays ''
convertCubePiecesToJson(ps) ==
    [face \in {"U", "R", "F", "D", "L", "B"} |->
        [row \in 0..2 |->
            [col \in 0..2 |->
                LET hits == { i \in 1..Len(ps) :
                                 LET faceInfos == get3DCoordFaceInfo(ps[i].position[1], ps[i].position[2],
                                                                     ps[i].position[3])
                                 IN  /\ \E m \in 1..Len(faceInfos) :
                                           faceInfos[m] = [face |-> face, row |-> row, col |-> col]
                                     /\ convertHexToColorChar(ps[i].faceColors[FACE_INDEX_MAPPING(face)])
                                           # "black" }
                IN  IF hits = {} THEN ""
                    ELSE LET i == CHOOSE h \in hits : \A g \in hits : g <= h
                         IN  convertHexToColorChar(ps[i].faceColors[FACE_INDEX_MAPPING(face)])]]]

(***************************************************************************)
(* App.handleFileUpload: an uploaded JSON file is parsed, converted with   *)
(* convertJsonToCubePieces and handed to setPieces of the cube handle.     *)
(* The files the model uploads have the grids of the faces selected by a   *)
(* bit mask over jsonFaces, filled after one of two patterns: the home     *)
(* letter of the face, and letters that vary from cell to cell (among them *)
(* a letter COLOR_MAPPING does not have and the empty string).             *)
(***************************************************************************)
UploadLetters == << "r", "g", "b", "o", "y", "w", "x", "" >>
UploadPatterns == {"home", "varied"}
UploadMasks == 0..63

uploadFaces(mask) ==
    { jsonFaces[n] : n \in { m \in 1..6 : (mask \div (2 ^ (m - 1))) % 2 = 1 } }

uploadLetter(pattern, face, row, col) ==
    CASE pattern = "home" -> convertHexToColorChar(initialPieces[
                                 findPiece(initialPieces, convertFaceCoordTo3D(face, 1, 1))
                             ].faceColors[FACE_INDEX_MAPPING(face)])
      [] pattern = "varied" ->
             UploadLetters[((row * 3 + col + FACE_INDEX_MAPPING(face)) % Len(UploadLetters)) + 1]

uploadData(pattern, mask) ==
    [face \in uploadFaces(mask) |->
        [row \in 0..2 |-> [col \in 0..2 |-> uploadLetter(pattern, face, row, col)]]]

handleFileUpload ==
    /\ \E pattern \in UploadPatterns, mask \in UploadMasks :
          LET newPieces == convertJsonToCubePieces(uploadData(pattern, mask))
          IN  /\ IF isRotating \/ Len(rotationQueue) > 0
                 THEN /\ Len(waiters) < MaxWaiters
                      /\ waiters' = Append(waiters, [newPieces |-> newPieces,
                                                     isRotating |-> isRotating,
                                                     queueLength |-> Len(rotationQueue)])
                      /\ UNCHANGED pieces
                 ELSE /\ pieces' = newPieces
                      /\ UNCHANGED waiters
              /\ opener' = IF AtRest THEN call("handleFileUpload", pattern, mask)
                           ELSE call("mixed", "none", 0)
    /\ requested' = IF AtRest THEN << >> ELSE requested
    /\ committed' = IF AtRest THEN << >> ELSE committed
    /\ UNCHANGED <<isRotating, rotationQueue, rotationState, clock, timers, editor, kociemba, aside, calls,
                   base>>

\* the solver string functions applied, in any order, to the cell values and
\* strings a caller starts with
InitKociemba ==
    /\ pieces = initialPieces
    /\ isRotating = FALSE
    /\ rotationQueue = << >>
    /\ rotationState = idleRotationState
    /\ clock = 0
    /\ timers = << >>
    /\ colorEditMode = FALSE
    /\ selectedCell = NoCell
    /\ waiters = << >>
    /\ kociemba \in [cubeData : CubeInputs, string : StringInputs, error : {FALSE},
                      op : {"none"}]
    /\ solution = NoSolution
    /\ viewer = NoViewer
    /\ imageApi = NoImageApi
    /\ base = initialPieces
    /\ requested = << >>
    /\ opener = call("none", "none", 0)
    /\ calls = 0
    /\ committed = << >>
    /\ selects = 0
NextKociemba == encodeCube \/ decodeString
SpecKociemba == InitKociemba /\ [][NextKociemba]_vars

\* reverseSolution applied, again and again, to the move array of a caller;
\* the cube is the canonical one or has its front face turned
InitReverse ==
    /\ pieces \in {initialPieces, turnPieces(initialPieces, "F", 1)}
    /\ isRotating = FALSE
    /\ rotationQueue = << >>
    /\ rotationState = idleRotationState
    /\ clock = 0
    /\ timers = << >>
    /\ colorEditMode = FALSE
    /\ selectedCell = NoCell
    /\ waiters = << >>
    /\ kociemba = NoKociemba
    /\ solution \in [moves : MoveLists, reversed : {<< >>}, op : {"none"}]
    /\ viewer = NoViewer
    /\ imageApi = NoImageApi
    /\ base = pieces
    /\ requested = << >>
    /\ opener = call("none", "none", 0)
    /\ calls = 0
    /\ committed = << >>
    /\ selects = 0
NextReverse == callReverseSolution
SpecReverse == InitReverse /\ [][NextReverse]_vars

\* SolutionViewer mounted with a list of MaxMoves moves on the canonical cube
InitViewer ==
    /\ pieces = initialCubeState
    /\ isRotating = FALSE
    /\ rotationQueue = << >>
    /\ rotationState = idleRotationState
    /\ clock = 0
    /\ timers = << >>
    /\ colorEditMode = FALSE
    /\ selectedCell = NoCell
    /\ waiters = << >>
    /\ kociemba = NoKociemba
    /\ solution = NoSolution
    /\ \E moveList \in [1..MaxMoves -> ViewerTokens] :
          viewer = [NoViewer EXCEPT !.moveList = moveList, !.snapshot = initialCubeState]
    /\ imageApi = NoImageApi
    /\ base = pieces
    /\ requested = << >>
    /\ opener = call("none", "none", 0)
    /\ calls = 0
    /\ committed = << >>
    /\ selects = 0

\* the viewer stepped forward and backward
NextStep ==
    \/ viewer_handleNextStep
    \/ viewer_handlePrevStep
    \/ processQueue
    \/ waitTimer
    \/ applyMoveTimer
    \/ useFrame
SpecStep == InitViewer /\ [][NextStep]_vars

\* auto-play, started, stopped and started again; the queue effect runs
\* after every render and every timer fires
NextPlay ==
    \/ viewer_handleAutoPlay
    \/ processQueue
    \/ waitTimer
    \/ applyMoveTimer
    \/ useFrame
    \/ waitForRotationComplete
SpecPlay == InitViewer /\ [][NextPlay]_vars
FairPlay == SpecPlay /\ WF_vars(processQueue) /\ WF_vars(waitTimer)

\* every button of the viewer
NextViewer ==
    \/ viewer_handleNextStep
    \/ viewer_handlePrevStep
    \/ viewer_handleAutoPlay
    \/ viewer_handleReset
    \/ processQueue
    \/ waitTimer
    \/ applyMoveTimer
    \/ useFrame
    \/ waitForRotationComplete
SpecViewer == InitViewer /\ [][NextViewer]_vars

\* images uploaded one after the other, with or without a session id left
\* in localStorage by an earlier visit
InitUpload ==
    /\ pieces = initialPieces
    /\ isRotating = FALSE
    /\ rotationQueue = << >>
    /\ rotationState = idleRotationState
    /\ clock = 0
    /\ timers = << >>
    /\ colorEditMode = FALSE
    /\ selectedCell = NoCell
    /\ waiters = << >>
    /\ kociemba = NoKociemba
    /\ solution = NoSolution
    /\ viewer = NoViewer
    /\ \E stored \in {0, 1} :
          imageApi = [NoImageApi EXCEPT !.stored = stored, !.minted = stored]
    /\ base = initialPieces
    /\ requested = << >>
    /\ opener = call("none", "none", 0)
    /\ calls = 0
    /\ committed = << >>
    /\ selects = 0
NextUpload == uploadImageToBackend \/ createSession \/ uploadResponse
SpecUpload == InitUpload /\ [][NextUpload]_vars

\* files are uploaded to the cube, which is reset in between
NextLoad == handleFileUpload \/ reset
SpecLoad == Init /\ [][NextLoad]_vars

(***************************************************************************)
(* App.handleAnalysisComplete: the pieces built from the colour grids of   *)
(* the image analysis.                                                     *)
(***************************************************************************)
\* colorMap[colorLabel] || 0x212121
colorMap(colorLabel) ==
    CASE colorLabel = "w" -> 16777215 [] colorLabel = "y" -> 16766208
      [] colorLabel = "o" -> 16734208 [] colorLabel = "r" -> 12852794
      [] colorLabel = "g" -> 40544 [] colorLabel = "b" -> 20922
      [] OTHER -> 2171169

\* the if / else-if chain: whether the piece at (x, y, z) belongs to the face,
\* and the cell of its grid that is read for it
analysisCell_mirrorR(faceName, x, y, z) ==
    CASE faceName = "R" /\ x = 1 -> [belongsToFace |-> TRUE, row |-> 1 - y, col |-> z + 1]
      [] faceName = "L" /\ x = -1 -> [belongsToFace |-> TRUE, row |-> 1 - y, col |-> z + 1]
      [] faceName = "U" /\ y = 1 -> [belongsToFace |-> TRUE, row |-> z + 1, col |-> x + 1]
      [] faceName = "D" /\ y = -1 -> [belongsToFace |-> TRUE, row |-> 1 - z, col |-> x + 1]
      [] faceName = "F" /\ z = 1 -> [belongsToFace |-> TRUE, row |-> 1 - y, col |-> x + 1]
      [] faceName = "B" /\ z = -1 -> [belongsToFace |-> TRUE, row |-> 1 - y, col |-> 1 - x]
      [] OTHER -> [belongsToFace |-> FALSE, row |-> 0, col |-> 0]

analysisCell(faceName, x, y, z) ==
    CASE faceName = "R" /\ x = 1 -> [belongsToFace |-> TRUE, row |-> 1 - y, col |-> 1 - z]
      [] faceName = "L" /\ x = -1 -> [belongsToFace |-> TRUE, row |-> 1 - y, col |-> z + 1]
      [] faceName = "U" /\ y = 1 -> [belongsToFace |-> TRUE, row |-> z + 1, col |-> x + 1]
      [] faceName = "D" /\ y = -1 -> [belongsToFace |-> TRUE, row |-> 1 - z, col |-> x + 1]
      [] faceName = "F" /\ z = 1 -> [belongsToFace |-> TRUE, row |-> 1 - y, col |-> x + 1]
      [] faceName = "B" /\ z = -1 -> [belongsToFace |-> TRUE, row |-> 1 - y, col |-> 1 - x]
      [] OTHER -> [belongsToFace |-> FALSE, row |-> 0, col |-> 0]

\* updatedPieces: the 26 pieces in the order of the x, y, z loops (that of
\* initialPieces); a slot takes the colour of the cell of its face if the
\* piece belongs to that face and cubeColors has the face, else stays black
handleAnalysisComplete(cubeColors) ==
    [i \in 1..Len(initialPieces) |->
        LET position == initialPieces[i].position
        IN  [id |-> position,
             position |-> position,
             faceColors |->
                [j \in 1..6 |->
                    LET faceName == CHOOSE f \in Faces : FACE_INDEX_MAPPING(f) = j
                        cell == analysisCell(faceName, position[1], position[2], position[3])
                    IN  IF faceName \in DOMAIN cubeColors /\ cell.belongsToFace
                        THEN colorMap(cubeColors[faceName][cell.row][cell.col])
                        ELSE 2171169]]]

(***************************************************************************)
(* CubeNet: the faceData memo.  Every piece writes the colour of a slot to *)
(* the grid of each face it lies on, at index getGridIndex(u, v).          *)
(***************************************************************************)
getGridIndex(u, v) == (1 - v) * 3 + (u + 1)

\* the cells (face, index, slot of faceColors) the piece at (x, y, z) writes,
\* in the order of the if statements of the forEach body
netWrites(x, y, z) ==
       (IF y = 1 THEN << [face |-> "U", index |-> getGridIndex(x, -z), slot |-> 3] >> ELSE << >>)
    \o (IF y = -1 THEN << [face |-> "D", index |-> getGridIndex(x, z), slot |-> 4] >> ELSE << >>)
    \o (IF z = 1 THEN << [face |-> "F", index |-> getGridIndex(x, y), slot |-> 5] >> ELSE << >>)
    \o (IF z = -1 THEN << [face |-> "B", index |-> getGridIndex(-x, y), slot |-> 6] >> ELSE << >>)
    \o (IF x = -1 THEN << [face |-> "L", index |-> getGridIndex(z, y), slot |-> 2] >> ELSE << >>)
    \o (IF x = 1 THEN << [face |-> "R", index |-> getGridIndex(-z, y), slot |-> 1] >> ELSE << >>)

\* the pieces (array indices) that write cell index of a face
netWriters(ps, face, index) ==
    { i \in 1..Len(ps) :
         LET ws == netWrites(ps[i].position[1], ps[i].position[2], ps[i].position[3])
         IN  \E m \in 1..Len(ws) : ws[m].face = face /\ ws[m].index = index }

\* faceData: per face the 9 colours displayed, the colour of the last piece
\* (in array order) that writes the cell; -1 stands for null (no piece)
faceData(ps) ==
    [face \in Faces |->
        [index \in 0..8 |->
            LET hits == netWriters(ps, face, index)
            IN  IF hits = {} THEN -1
                ELSE LET i == CHOOSE h \in hits : \A g \in hits : g <= h
                     IN  ps[i].faceColors[FACE_INDEX_MAPPING(face)]]]

Next ==
    \/ cubeRef_addRotation(AnyFaces)
    \/ handleKeyDown
    \/ handlePieceClick
    \/ useFrame
    \/ shuffle
    \/ reset
    \/ handleNextStep(Tokens \cup MalformedTokens)
    \/ applyMoveTimer
    \/ handleAutoSolve
    \/ handleColorEditToggle
    \/ handleNetCellSelect
    \/ handleColorSelect
    \/ cubeRef_setPieces
    \/ waitForRotationComplete
    \/ handleFileUpload
    \/ encodeCube
    \/ decodeString
    \/ callReverseSolution
    \/ viewer_handleNextStep
    \/ viewer_handlePrevStep
    \/ viewer_handleAutoPlay
    \/ viewer_handleReset
    \/ processQueue
    \/ waitTimer
    \/ uploadImageToBackend
    \/ createSession
    \/ uploadResponse

Spec == Init /\ [][Next]_vars

(***************************************************************************)
(* Properties.                                                             *)
(***************************************************************************)
Axes == {"x", "y", "z"}
Slots == 1..6
Origin == <<0, 0, 0>>

\* slot j of faceColors faces along axis slotAxis(j) towards slotValue(j):
\* [Right +X, Left -X, Top +Y, Bottom -Y, Front +Z, Back -Z]
slotAxis(j) == (j + 1) \div 2
slotValue(j) == IF j % 2 = 1 THEN 1 ELSE -1
\* the outward normal of slot j, and the slot of a normal
slotNormal(j) ==
    << IF slotAxis(j) = 1 THEN slotValue(j) ELSE 0,
       IF slotAxis(j) = 2 THEN slotValue(j) ELSE 0,
       IF slotAxis(j) = 3 THEN slotValue(j) ELSE 0 >>
slotOf(n) == CHOOSE j \in Slots : slotNormal(j) = n

\* some turn has been committed and the pieces are not the canonical ones
Turned == pieces # initialPieces

\* C1: there are exactly 26 pieces and their positions are pairwise distinct
\* points of {-1,0,1}^3 other than the origin, whatever addRotation requests
\* and animation frames have happened.
PositionBijection ==
    /\ Len(pieces) = 26
    /\ \A i \in 1..Len(pieces) :
          /\ pieces[i].position \in (Coords \X Coords \X Coords) \ {Origin}
          /\ \A j \in 1..Len(pieces) : i # j => pieces[i].position # pieces[j].position

\* a turn has been started and no frame has run for it yet: addRotation or the
\* dequeue of useFrame has just set rotationState
JustStarted == isRotating /\ rotationState.face # "null" /\ rotationState.startTime = 0

\* C3: a turn (f, d) followed by the turn (f, -d) restores the position and
\* the six slot colours of every piece: for the face of the turn just started, taken in
\* either direction on the current pieces, and for two requests served by
\* the scheduler from rest.
InverseTurn ==
    /\ JustStarted =>
          \A d \in Directions :
              turnPieces(turnPieces(pieces, rotationState.face, d), rotationState.face, -d) = pieces
    /\ (AtRest /\ Len(requested) = 2 /\ requested[1].face = requested[2].face
               /\ requested[1].direction = -requested[2].direction) => pieces = base

\* a state in which a turn and its inverse have both been committed by the scheduler
InverseTurnWitness ==
    /\ AtRest /\ Len(requested) = 2 /\ requested[1].face = requested[2].face
    /\ requested[1].direction = -requested[2].direction
    /\ pieces = base
    /\ calls = 2

\* C4: four turns (f, d) in a row restore the position and the six slot
\* colours of every piece, for the face of the turn just started and either
\* direction.
OrderFour ==
    JustStarted =>
        \A d \in Directions :
            LET f == rotationState.face
            IN  turnPieces(turnPieces(turnPieces(turnPieces(pieces, f, d), f, d), f, d), f, d) = pieces

\* a turn has been started on pieces that an earlier turn has changed, and two
\* turns of its face do not restore them
OrderFourWitness ==
    /\ JustStarted
    /\ Turned
    /\ turnPieces(turnPieces(pieces, rotationState.face, 1), rotationState.face, 1) # pieces

\* C6: each outer face has exactly 9 pieces on it, and a slot holds a palette
\* colour exactly when the piece lies on the outer face that slot faces.
FaceStickerInvariant ==
    /\ \A f \in Faces : Len(selectPiecesForRotation(pieces, f)) = 9
    /\ \A i \in 1..Len(pieces), j \in Slots :
          (pieces[i].faceColors[j] \in Palette) <=> (pieces[i].position[slotAxis(j)] = slotValue(j))

\* the quarter turns the specification lists for each axis and direction
specTransform(p, axis, direction) ==
    LET x == p[1]
        y == p[2]
        z == p[3]
    IN  CASE axis = "x" -> IF direction = 1 THEN << x, -z, y >> ELSE << x, z, -y >>
          [] axis = "y" -> IF direction = 1 THEN << z, y, -x >> ELSE << -z, y, x >>
          [] axis = "z" -> IF direction = 1 THEN << -y, x, z >> ELSE << y, -x, z >>

\* C9: rotatePosition maps the position of every piece of the turn just started
\* to the listed quarter turn image, for its axis and either direction, with
\* every component in {-1,0,1}.
PositionTransform ==
    JustStarted =>
        \A i \in 1..Len(pieces), d \in Directions :
            includes(rotationState.activeGroup, pieces[i].id) =>
                LET p == pieces[i].position
                    q == rotatePosition(p, rotationState.axis, d)
                IN  /\ q = specTransform(p, rotationState.axis, d)
                    /\ q \in Coords \X Coords \X Coords

\* a turn has been started on pieces that an earlier turn has changed
PositionTransformWitness ==
    /\ JustStarted
    /\ Turned
    /\ Len(rotationState.activeGroup) = 9

\* C10: the colour a piece has in the slot of normal n is, after the turn, in
\* the slot whose normal is the image of n under the quarter turn applied to
\* positions (for the pieces and the axis of the turn just started, in either
\* direction); and from canonical, once R +1 is committed, the piece that
\* was at (1,1,1) is at (1,-1,1) with its former +Y colour in its +Z slot.
StickerFollowsPosition ==
    /\ JustStarted =>
          \A i \in 1..Len(pieces), d \in Directions, j \in Slots :
              includes(rotationState.activeGroup, pieces[i].id) =>
                  rotateFaceColors(pieces[i].faceColors, rotationState.axis, d)
                      [slotOf(rotatePosition(slotNormal(j), rotationState.axis, d))]
                  = pieces[i].faceColors[j]
    /\ (AtRest /\ base = initialPieces /\ Len(requested) = 1
               /\ requested[1].face = "R" /\ requested[1].direction = 1)
          => \E i \in 1..Len(pieces) :
                /\ pieces[i].id = <<1, 1, 1>>
                /\ pieces[i].position = <<1, -1, 1>>
                /\ pieces[i].faceColors[5] = COLORS.white
                /\ base[i].faceColors[3] = COLORS.white

\* R +1 requested on the canonical cube has been committed
StickerFollowsPositionWitness ==
    /\ AtRest /\ base = initialPieces /\ Len(requested) = 1
    /\ requested[1].face = "R" /\ requested[1].direction = 1
    /\ Turned

\* C2: once the cube is at rest again, the pieces are those obtained by
\* applying the requested turns one after the other, in request order, to
\* the pieces the first request found; this for requests made one by one
\* and for a move list passed to handleAutoSolve.
FifoEquivalence == AtRest => pieces = turnAll(base, requested)

\* C5: once the cube is at rest after a reset that no request has followed,
\* the pieces are the canonical piece array.
ScrambleThenReset == (AtRest /\ opener.handler = "reset") => pieces = initialPieces

\* C7: for a valid cube state, converting the pieces to the colour grids and
\* back gives, at every outer (position, slot), the colour the state has there.
ColorRoundTrip ==
    (PositionBijection /\ FaceStickerInvariant) =>
        LET back == convertJsonToCubePieces(convertCubePiecesToJson(pieces))
        IN  \A i \in 1..Len(pieces), j \in Slots :
                pieces[i].position[slotAxis(j)] = slotValue(j) =>
                    \E k \in 1..Len(back) :
                        /\ back[k].position = pieces[i].position
                        /\ back[k].faceColors[j] = pieces[i].faceColors[j]

\* C8: two +1 turns of a face give the same pieces as two -1 turns of it (for
\* the face of the turn just started), and a half-turn token applied through
\* handleApplyMove to a cube at rest leaves, once the cube is at rest again,
\* the pieces that two +1 turns of its face give.
HalfTurn ==
    /\ JustStarted =>
          LET f == rotationState.face
          IN  turnPieces(turnPieces(pieces, f, 1), f, 1) = turnPieces(turnPieces(pieces, f, -1), f, -1)
    /\ (AtRest /\ opener.handler = "handleApplyMove" /\ opener.rotation = 2) =>
          /\ pieces = turnPieces(turnPieces(base, opener.face, 1), opener.face, 1)
          /\ pieces = turnPieces(turnPieces(base, opener.face, -1), opener.face, -1)

\* a half-turn token has been applied to a cube that was not canonical, and
\* both of its quarter turns are committed
HalfTurnWitness ==
    /\ AtRest /\ opener.handler = "handleApplyMove" /\ opener.rotation = 2
    /\ base # initialPieces
    /\ pieces # base

\* the edit the specification asks for: slot faceIndex of the piece whose
\* current position is p takes the colour, nothing else changes
setSticker(ps, p, faceIndex, color) ==
    [i \in 1..Len(ps) |->
        IF ps[i].position = p
        THEN [ps[i] EXCEPT !.faceColors[faceIndex + 1] = color]
        ELSE ps[i]]

\* C11: when a colour is applied to a cell that was selected (on a 3D piece or
\* on the net) with the cube at rest, the pieces are those before the edit
\* with the colour in the selected slot of the piece that is at the selected
\* position, and nothing else changed.
EditTarget ==
    (AtRest /\ opener.handler = "handleColorSelect") =>
        pieces = setSticker(base, << opener.cell.x, opener.cell.y, opener.cell.z >>,
                            opener.cell.faceIndex, opener.rotation)

\* C12: once the cube is at rest, the turns that were committed since the
\* requests began are exactly the requests that addRotation accepted, each
\* once and in request order: none committed twice, none dropped or
\* overwritten.
CommittedOnce == AtRest => committed = requested

\* C13: while a turn is in flight and no turn has been committed since it was
\* requested on a cube at rest, the pieces are still those the request found:
\* a sticker edit requested meanwhile has not been applied.
DeferredEdit == (isRotating /\ committed = << >>) => pieces = base

\* C14: a bulk replace that was put off because a turn was animating or
\* queued is eventually applied (it stops waiting), frames and the 100 ms
\* timer being run fairly.
DeferredReplace == (waiters # << >>) ~> (waiters = << >>)

\* exactly 26 pieces at pairwise distinct lattice positions other than the origin
validPieces(ps) ==
    /\ Len(ps) = 26
    /\ \A i \in 1..Len(ps) :
          /\ ps[i].position \in (Coords \X Coords \X Coords) \ {Origin}
          /\ \A j \in 1..Len(ps) : i # j => ps[i].position # ps[j].position

\* C17: after setPieces was called on a cube at rest with a piece array that
\* is not 26 pieces at pairwise distinct non-origin positions, the pieces are
\* still those the call found.
ReplaceValidated ==
    (opener.handler = "setPieces" /\ ~validPieces(ReplaceInputs[opener.rotation]))
        => pieces = base

\* the scheduler is Idle
Idle == ~isRotating /\ rotationQueue = << >>

\* a step of the scheduler: a request accepted while not rotating starts its
\* turn; a commit with a request pending starts the head of the queue at
\* once, still rotating, and a commit with none pending goes to Idle
SchedulerStep ==
    /\ (~isRotating /\ calls' > calls) =>
          /\ isRotating'
          /\ rotationState' = startState(pieces, requested'[Len(requested')].face,
                                         requested'[Len(requested')].direction,
                                         requested'[Len(requested')].duration)
          /\ rotationState'.axis \in Axes
          /\ rotationQueue' = rotationQueue
    /\ (Len(committed') > Len(committed)) =>
          IF rotationQueue # << >>
          THEN /\ isRotating'
               /\ rotationState'.face = Head(rotationQueue).face
               /\ rotationState'.direction = Head(rotationQueue).direction
               /\ rotationState'.startTime = 0
               /\ rotationQueue' = Tail(rotationQueue)
          ELSE /\ ~isRotating'
               /\ rotationQueue' = << >>
               /\ rotationState'.axis = "null"

\* C15: the scheduler goes from Idle to Animating on the first accepted
\* request, starts the next pending request right after each commit without
\* becoming Idle in between, and, frames being run fairly, a rotating
\* scheduler eventually is Idle with an empty queue.
SchedulerStates == [][SchedulerStep]_vars /\ (isRotating ~> Idle)

\* the scheduler is Idle again after it committed a turn and then the turn
\* that was queued behind it
SchedulerStatesWitness == Idle /\ Len(committed) = 2 /\ Len(requested) = 2

\* C16: once the cube is at rest after shuffle() was called on a cube at rest
\* and nothing else was requested, the committed turns are the turns shuffle
\* generated, all of them and in that order, each with the shuffle duration.
ScrambleCount ==
    (AtRest /\ opener.handler = "shuffle") =>
        /\ Len(committed) = ShuffleLen
        /\ committed = requested
        /\ \A i \in 1..Len(committed) : committed[i].duration = SHUFFLE_ROTATION_DURATION

\* C18: no request with a face outside {U,D,L,R,F,B} is ever in the pending
\* queue or in the rotation state: addRotation has refused it and left the
\* queue and the scheduler as they were.
UnknownFaceRejected ==
    /\ \A i \in 1..Len(rotationQueue) : rotationQueue[i].face \in Faces
    /\ rotationState.face \in Faces \cup {"null"}

\* C19: after a malformed move token was handed to the cube at rest, no turn
\* has been requested or started and the pieces are those the token found.
MalformedTokenRejected ==
    (opener.handler = "handleApplyMove" /\ opener.move[1] \in MalformedTokens) =>
        /\ requested = << >>
        /\ ~isRotating
        /\ pieces = base

\* what the move notation says of a token: its rotation and its quarter turns
tokenRotation(token) ==
    IF Len(token) = 1 THEN 1 ELSE IF token[2] = "'" THEN -1 ELSE 2
tokenTurns(token) == IF tokenRotation(token) = 2 THEN 2 ELSE 1

\* for a move list, the index of the token each quarter turn belongs to
RECURSIVE turnOwners(_, _)
turnOwners(moves, k) ==
    IF k > Len(moves) THEN << >>
    ELSE (IF tokenTurns(moves[k]) = 2 THEN << k, k >> ELSE << k >>) \o turnOwners(moves, k + 1)

\* the turns are, token after token, one quarter turn of the face of a plain
\* or primed token and two quarter turns, of the same face and in the same
\* direction, of a half-turn token
turnsOf(moves, turns) ==
    LET owners == turnOwners(moves, 1)
    IN  /\ Len(turns) = Len(owners)
        /\ \A i \in 1..Len(turns) :
              /\ turns[i].face = moves[owners[i]][1]
              /\ \A j \in 1..Len(turns) :
                    owners[i] = owners[j] => turns[i].direction = turns[j].direction

\* the tokens parse to their face and rotation, and a token applied through
\* handleApplyMove to a cube at rest has made its one or two quarter turns
TokenApplied ==
    /\ \A token \in Tokens :
          /\ parseMove(token).face = token[1]
          /\ parseMove(token).rotation = tokenRotation(token)
    /\ (AtRest /\ opener.handler = "handleApplyMove" /\ opener.move[1] \in Tokens) =>
          /\ opener.face = opener.move[1][1]
          /\ opener.rotation = tokenRotation(opener.move[1])
          /\ turnsOf(opener.move, committed)

\* C20: every well-formed token parses to its face letter and to rotation 1
\* (plain), -1 (primed) or 2 (half turn); once the cube is at rest again, a
\* token applied through handleApplyMove and a move list applied through
\* handleAutoSolve have made one quarter turn per plain or primed token and
\* two quarter turns of the same face and direction per half-turn token.
TokenMapping ==
    /\ TokenApplied
    /\ (AtRest /\ opener.handler = "handleAutoSolve") => turnsOf(opener.move, committed)

\* one step of the sticker editor, as the two-step protocol describes it
EditStep ==
    /\ selects' > selects =>
          /\ colorEditMode
          /\ selectedCell' # NoCell
          /\ pieces' = pieces
    /\ (selectedCell # NoCell /\ selectedCell' = NoCell /\ colorEditMode' = colorEditMode) =>
          \E color \in PickerColors :
              pieces' = setSticker(pieces, << selectedCell.x, selectedCell.y, selectedCell.z >>,
                                   selectedCell.faceIndex, color)
    /\ (selectedCell = NoCell /\ selectedCell' = NoCell /\ ~isRotating /\ ~isRotating') =>
          pieces' = pieces

\* C21: in edit mode a selection records the cell and changes no piece; the
\* colour choice that follows changes the selected slot of the piece at the
\* selected position to that colour, changes nothing else and clears the
\* selection; with nothing selected no step of the editor changes a piece.
TwoStepEdit == [][EditStep]_vars

\* a step that toggles the edit mode, or applies a colour, leaves no selection
LifetimeStep ==
    /\ colorEditMode' # colorEditMode => selectedCell' = NoCell
    /\ (pieces' # pieces /\ clock' = clock) => selectedCell' = NoCell

\* C22: a selection exists only while edit mode is on, and a toggle of the
\* edit mode (on or off) and the application of a colour both leave the
\* selection null.
SelectionLifetime ==
    /\ [](selectedCell # NoCell => colorEditMode)
    /\ [][LifetimeStep]_vars

\* a cell was selected and edit mode has been switched off since
SelectionLifetimeWitness == selects > 0 /\ selectedCell = NoCell /\ ~colorEditMode

\* C23: pointer clicks on pieces being the only source of turns, no step
\* taken while edit mode is on starts or enqueues a turn, and a step that
\* changes the selection to a piece that was clicked changes nothing else of
\* the cube.
ClickSuppressed ==
    [][(colorEditMode /\ colorEditMode') =>
          /\ UNCHANGED <<isRotating, rotationQueue, rotationState, timers, calls, requested>>
          /\ selectedCell'.pieceId # NoId => UNCHANGED pieces]_vars

\* a piece was clicked in edit mode
ClickSuppressedWitness ==
    /\ colorEditMode
    /\ selectedCell.pieceId # NoId
    /\ ~isRotating
    /\ calls = 0

\* the lattice positions of the 26 pieces
Lattice == { p \in Coords \X Coords \X Coords : p # Origin }

homeChar(face) ==
    CASE face = "U" -> "w" [] face = "R" -> "r" [] face = "F" -> "g"
      [] face = "D" -> "y" [] face = "L" -> "o" [] face = "B" -> "b"

\* C25: whenever the pieces are the canonical ones, convertCubePiecesToJson
\* gives six 3x3 grids in which every cell of a face holds the colour code of
\* that face (U w, R r, F g, D y, L o, B b), none being empty.
SolvedEncoding ==
    ~Turned =>
        LET cubeData == convertCubePiecesToJson(pieces)
        IN  /\ DOMAIN cubeData = {"U", "R", "F", "D", "L", "B"}
            /\ \A face \in DOMAIN cubeData :
                  /\ DOMAIN cubeData[face] = 0..2
                  /\ \A row \in 0..2 :
                        /\ DOMAIN cubeData[face][row] = 0..2
                        /\ \A col \in 0..2 : cubeData[face][row][col] = homeChar(face)

\* the canonical state, reached again by a turn and its inverse
SolvedEncodingWitness == ~Turned /\ ~isRotating /\ calls = 2

\* C26: every outer sticker is displayed by the net view at the (row, col) at
\* which get3DCoordFaceInfo exports it and at which handleAnalysisComplete
\* reads it: position by position the three formulas give the same cell, and
\* in every state at rest whose pieces occupy the 26 positions (the pieces of
\* a state with a turn in flight are those of the state at rest before it)
\* the exported grid holds, cell by cell, the colour the net displays there, and importing the
\* exported grid gives back, at every outer (position, slot), the colour of
\* the state.
MappingConsistency ==
    /\ \A p \in Lattice :
          LET ws == netWrites(p[1], p[2], p[3])
              faceInfos == get3DCoordFaceInfo(p[1], p[2], p[3])
          IN  /\ Len(ws) = Len(faceInfos)
              /\ \A m \in 1..Len(ws) :
                    LET cell == [face |-> ws[m].face, row |-> ws[m].index \div 3,
                                 col |-> ws[m].index % 3]
                    IN  /\ \E n \in 1..Len(faceInfos) : faceInfos[n] = cell
                        /\ analysisCell(cell.face, p[1], p[2], p[3]) =
                              [belongsToFace |-> TRUE, row |-> cell.row, col |-> cell.col]
    /\ (~isRotating /\ PositionBijection) =>
          LET cubeData == convertCubePiecesToJson(pieces)
              shown == faceData(pieces)
              loaded == handleAnalysisComplete(cubeData)
          IN  /\ \A face \in Faces, row \in 0..2, col \in 0..2 :
                    cubeData[face][row][col] = convertHexToColorChar(shown[face][row * 3 + col])
              /\ \A i \in 1..Len(pieces), j \in Slots :
                    pieces[i].position[slotAxis(j)] = slotValue(j) =>
                        \E k \in 1..Len(loaded) :
                            /\ loaded[k].position = pieces[i].position
                            /\ loaded[k].faceColors[j] = pieces[i].faceColors[j]

\* a cube turned twice, at rest
MappingConsistencyWitness ==
    /\ calls = 2
    /\ ~isRotating
    /\ Turned
    /\ PositionBijection

\* the key of a face
keyOf(face) ==
    CASE face = "R" -> "r" [] face = "L" -> "l" [] face = "U" -> "u"
      [] face = "D" -> "d" [] face = "F" -> "f" [] face = "B" -> "b"

\* the pieces a request leaves when it is committed on the pieces ps
turned(ps, r) == turnPieces(ps, r.face, r.direction)

\* C27: on the cube at rest, for every piece and the face a click on it
\* turns, the left click, the unshifted key of that face and the unprimed
\* token of that face request turns that commit the same pieces, and the
\* right click, the shifted key and the primed token request turns that
\* commit the same pieces, those of the opposite quarter turn.
UniformHandedness ==
    (~isRotating /\ PositionBijection) =>
        \A i \in 1..Len(pieces) :
            LET left == clickRotation(pieces[i].position, 0)
                right == clickRotation(pieces[i].position, 2)
                face == left.face
                plain == request(face, moveDirection(face, parseMove(<< face >>).rotation),
                                 ROTATION_DURATION)
                primed == request(face, moveDirection(face, parseMove(<< face, "'" >>).rotation),
                                  ROTATION_DURATION)
            IN  /\ turned(pieces, left) = turned(pieces, keyMap(keyOf(face), FALSE))
                /\ turned(pieces, left) = turned(pieces, plain)
                /\ turned(pieces, right) = turned(pieces, keyMap(keyOf(face), TRUE))
                /\ turned(pieces, right) = turned(pieces, primed)
                /\ turned(turned(pieces, left), right) = pieces

\* C28: isMoving is true exactly when a turn is set up in the rotation state
\* (in flight) or a request is in the queue, and whenever no turn is in
\* flight the queue is empty.
BusyFlag ==
    /\ isMoving <=> (rotationState.axis # "null" \/ Len(rotationQueue) > 0)
    /\ rotationState.axis = "null" => rotationQueue = << >>
    /\ ~isRotating => rotationQueue = << >>

\* the cube is idle again after a queued request has been committed
BusyFlagWitness == ~isMoving /\ Len(committed) = 2

\* the colour the specification gives a letter: its colour, or no sticker
letterColor(letter) ==
    CASE letter = "r" -> COLORS.red [] letter = "g" -> COLORS.green
      [] letter = "b" -> COLORS.blue [] letter = "o" -> COLORS.orange
      [] letter = "y" -> COLORS.yellow [] letter = "w" -> COLORS.white
      [] OTHER -> COLORS.black

\* C29: the pieces convertJsonToCubePieces returned for an uploaded object
\* are 26 pieces at pairwise distinct non-origin lattice positions; a slot of
\* a piece on a face whose grid is present holds the colour of the letter of
\* the cell of that grid that convertFaceCoordTo3D maps to the piece (no
\* sticker if the letter is not a colour letter), and every other slot,
\* inward-facing or of an absent face, holds no sticker.
LoadShape ==
    opener.handler = "handleFileUpload" =>
        LET present == uploadFaces(opener.rotation)
        IN  /\ PositionBijection
            /\ \A i \in 1..Len(pieces), j \in Slots :
                  LET face == CHOOSE f \in Faces : faceIndexMap(f) + 1 = j
                  IN  IF face \in present /\ pieces[i].position[slotAxis(j)] = slotValue(j)
                      THEN \E row \in 0..2, col \in 0..2 :
                              LET c == convertFaceCoordTo3D(face, row, col)
                              IN  /\ << c.x, c.y, c.z >> = pieces[i].position
                                  /\ pieces[i].faceColors[j] =
                                        letterColor(uploadLetter(opener.face, face, row, col))
                      ELSE pieces[i].faceColors[j] = COLORS.black

\* a file with some faces absent and a letter that is no colour was loaded
LoadShapeWitness ==
    /\ opener.handler = "handleFileUpload"
    /\ opener.face = "varied"
    /\ uploadFaces(opener.rotation) = {"U", "F", "L"}
    /\ \E i \in 1..Len(pieces) : pieces[i].faceColors[3] = COLORS.black /\ pieces[i].position[2] = 1

\* every cell of the cell values holds one character
complete(cubeData) == \A key \in CellKeys : Len(cubeData[key]) = 1

\* one call of a solver string function, as the format describes it
KociembaStep ==
    /\ (kociemba' # kociemba /\ kociemba'.op = "encode") =>
          /\ Len(kociemba'.string) = 54
          /\ \A f \in 1..6, i \in 1..9 :
                LET v == kociemba.cubeData[<< << "U", "R", "F", "D", "L", "B" >>[f], i >>]
                IN  kociemba'.string[(f - 1) * 9 + i] = (IF v = << >> THEN "?" ELSE v[1])
          /\ kociemba'.cubeData = kociemba.cubeData
    /\ (kociemba' # kociemba /\ kociemba'.op = "decode") =>
          IF Len(kociemba.string) # 54
          THEN kociemba'.error /\ kociemba'.cubeData = kociemba.cubeData
          ELSE /\ ~kociemba'.error
               /\ \A f \in 1..6, i \in 1..9 :
                     kociemba'.cubeData[<< << "U", "R", "F", "D", "L", "B" >>[f], i >>] =
                         << kociemba.string[(f - 1) * 9 + i] >>
               /\ cubeToKociembaString(kociemba'.cubeData) = kociemba.string
               /\ (kociemba.op = "encode" /\ complete(kociemba.cubeData)) =>
                     kociemba'.cubeData = kociemba.cubeData

\* C30: cubeToKociembaString gives 54 characters, those of the cells 1..9 of
\* U, R, F, D, L, B in this order with ? for a missing cell;
\* kociembaStringToCube applied to its result on complete cell values gives
\* the cell values back, gives for any 54 characters the cells holding them
\* in that order, and for a string of any other length throws and gives
\* nothing.
KociembaString == [][KociembaStep]_vars

\* complete cell values were converted to the string and back
KociembaStringWitness ==
    /\ kociemba.op = "decode"
    /\ ~kociemba.error
    /\ complete(kociemba.cubeData)
    /\ kociemba.cubeData \in CubeInputs
    /\ kociemba.cubeData[<< "R", 2 >>] # kociemba.cubeData[<< "U", 1 >>]

\* the ids of the 9 pieces of ps whose position lies on `face`
onFace(ps, face) ==
    { ps[i].id : i \in { k \in 1..Len(ps) :
                            ps[k].position[axisIndex(faceMap(face).axis)] = faceMap(face).value } }

\* a frame that commits a turn and starts the turn at the head of the queue
DequeueStep ==
    (Len(committed') = Len(committed) + 1 /\ isRotating' /\ Len(rotationQueue) > 0) =>
        { rotationState'.activeGroup[i] : i \in 1..Len(rotationState'.activeGroup) }
            = onFace(pieces', rotationState'.face)

\* C31: the turn that a frame takes from the queue when it commits its
\* predecessor rotates the 9 pieces that lie on its face after that commit.
QueuedSelection == [][DequeueStep]_vars

\* the two slots of faceColors that face along `axis`
axisSlots(axis) == { j \in Slots : slotAxis(j) = axisIndex(axis) }

\* what the commit of the turn in flight does to the pieces, piece by piece
frameOf(before, after, face) ==
    LET axis == faceMap(face).axis
    IN  /\ Len(after) = Len(before)
        /\ \A i \in 1..Len(before) :
              IF before[i].id \in onFace(before, face)
              THEN /\ after[i].position[axisIndex(axis)] = before[i].position[axisIndex(axis)]
                   /\ \A j \in axisSlots(axis) :
                         after[i].faceColors[j] = before[i].faceColors[j]
              ELSE after[i] = before[i]

\* a frame that commits the turn in flight
TurnFrameStep ==
    Len(committed') = Len(committed) + 1 => frameOf(pieces, pieces', rotationState.face)

\* C32: the commit of a quarter turn of a face changes only the 9 pieces on
\* that face, and leaves to each of them its position component along the
\* rotation axis and the colours of its two slots along that axis.
TurnFrame == [][TurnFrameStep]_vars

\* the frame that runs next finds the turn in flight complete
CommitDue ==
    /\ isRotating
    /\ rotationState.startTime # 0
    /\ clock + FrameMs - rotationState.startTime >= rotationState.duration

\* after differs from before in at most one slot of one piece
oneSticker(before, after) ==
    /\ Len(after) = Len(before)
    /\ \E i \in 1..Len(before), j \in Slots :
          /\ \A k \in 1..Len(before) : k # i => after[k] = before[k]
          /\ after[i].id = before[i].id
          /\ after[i].position = before[i].position
          /\ \A m \in Slots : m # j => after[i].faceColors[m] = before[i].faceColors[m]

\* one step of the component, as far as the pieces are concerned
AtomicStep ==
    /\ calls' # calls => pieces' = pieces
    /\ (PositionBijection /\ rotationState'.activeGroup # rotationState.activeGroup
                          /\ rotationState'.face \in Faces) =>
          Cardinality({ rotationState'.activeGroup[k] :
                            k \in 1..Len(rotationState'.activeGroup) }) = 9
    /\ (clock' # clock /\ ~CommitDue) => pieces' = pieces
    /\ (clock' # clock /\ CommitDue) =>
          /\ Len(pieces') = Len(pieces)
          /\ \A i \in 1..Len(pieces) :
                IF \E k \in 1..Len(rotationState.activeGroup) :
                      rotationState.activeGroup[k] = pieces[i].id
                THEN /\ pieces'[i].position =
                            specTransform(pieces[i].position, rotationState.axis,
                                          rotationState.direction)
                     /\ pieces'[i].faceColors =
                            rotateFaceColors(pieces[i].faceColors, rotationState.axis,
                                             rotationState.direction)
                     /\ pieces'[i].id = pieces[i].id
                ELSE pieces'[i] = pieces[i]
    /\ pieces' # pieces =>
          \/ clock' # clock /\ CommitDue
          \/ selectedCell # NoCell /\ selectedCell' = NoCell /\ oneSticker(pieces, pieces')
          \/ \E k \in 1..Len(ReplaceInputs) : pieces' = ReplaceInputs[k]
          \/ pieces' = initialPieces /\ rotationQueue' = << >>

\* C33: an addRotation call and a frame that finds the turn incomplete leave
\* the pieces as they are; a frame that finds it complete gives all pieces
\* of the turn (9 when it was selected on a well formed cube) their new
\* position and colours in that one step and leaves the others; every other change of the pieces is a sticker edit, a bulk
\* replace or a reset.
AtomicCommit == [][AtomicStep]_vars

\* two turns have been committed, the second one from the queue, and the
\* colour has been applied to the selected cell
AtomicCommitWitness ==
    Len(committed) = 2 /\ ~isRotating /\ pieces # base /\ selectedCell = NoCell

\* the pieces after the quarter turns of a token: those handleApplyMove
\* requests for it, each made and committed on a cube at rest
RECURSIVE quarterTurns(_, _, _, _)
quarterTurns(ps, face, direction, n) ==
    IF n = 0 THEN ps ELSE quarterTurns(turnPieces(ps, face, direction), face, direction, n - 1)

\* the pieces after the tokens of a move list, one after the other
RECURSIVE applyMoves(_, _)
applyMoves(ps, moves) ==
    IF moves = << >> THEN ps
    ELSE LET m == parseMove(Head(moves))
         IN  applyMoves(quarterTurns(ps, m.face, moveDirection(m.face, m.rotation),
                                     rotationsOf(m.rotation)),
                        Tail(moves))

\* the inverse of a token in the move notation
inverseToken(token) ==
    IF Len(token) = 1 THEN << token[1], "'" >>
    ELSE IF token[2] = "'" THEN << token[1] >>
    ELSE token

\* one call of reverseSolution
ReverseStep ==
    solution'.op = "reverse" =>
        /\ Len(solution'.reversed) = Len(solution.moves)
        /\ \A i \in 1..Len(solution.moves) :
              solution'.reversed[i] = inverseToken(solution.moves[Len(solution.moves) + 1 - i])
        /\ applyMoves(applyMoves(pieces, solution.moves), solution'.reversed) = pieces

\* C34: reverseSolution returns the tokens of its argument in reverse order,
\* a plain token primed, a primed token plain and a half turn kept, and the
\* moves of the argument followed by those of the result leave the cube as
\* it was.
ReversedSolution == [][ReverseStep]_vars

\* a list of two different tokens, one of them a half turn, has been reversed
ReversedSolutionWitness ==
    /\ solution.op = "reverse"
    /\ Len(solution.reversed) = 2
    /\ solution.reversed[1][1] # solution.reversed[2][1]
    /\ Len(solution.reversed[1]) = 1
    /\ solution.reversed[2] = << "R", "2" >>
    /\ Turned

\* the last two moves the viewer dispatched are a Next step and then a Prev step
NextThenPrev ==
    /\ Len(viewer.dispatched) >= 2
    /\ ~viewer.dispatched[Len(viewer.dispatched) - 1].back
    /\ viewer.dispatched[Len(viewer.dispatched)].back

\* C35: a Prev step that follows a Next step dispatches the face of that
\* move with the opposite rotation (the same for a half turn) and sets
\* currentStep to what it was before the Next step; once the cube is at
\* rest its pieces are those the Next step found, when it found it at rest.
StepRoundTrip ==
    NextThenPrev =>
        LET n == Len(viewer.dispatched)
            next == viewer.dispatched[n - 1]
            prev == viewer.dispatched[n]
        IN  /\ prev.face = next.face
            /\ prev.rotation = (IF next.rotation = 2 THEN 2 ELSE -next.rotation)
            /\ next.rotation \in {1, -1, 2}
            /\ viewer.currentStep = next.step
            /\ (AtRest /\ next.atRest) => pieces = viewer.snapshot

\* a half turn has been stepped forward and back, and the cube is at rest
StepRoundTripWitness ==
    /\ NextThenPrev
    /\ Len(viewer.dispatched) = 2
    /\ viewer.dispatched[1].rotation = 2
    /\ viewer.dispatched[1].atRest
    /\ AtRest
    /\ ~viewer.isProcessing
    /\ calls = 4
    /\ pieces = initialCubeState

\* C36: currentStep lies between 0 and the length of the move list and is
\* the number of moves dispatched forward less the number dispatched
\* backward since the viewer was last reset.
StepCounter ==
    /\ 0 <= viewer.currentStep
    /\ viewer.currentStep <= Len(viewer.moveList)
    /\ viewer.currentStep = viewer.forward - viewer.backward

\* auto-play is on and no button has been used since it was started
Playing == viewer.autoPlay /\ ~viewer.interrupted

\* the bound on addRotation calls leaves room for the pending 50 ms timers
\* and for the queued moves
PlayRoom == calls + Len(timers) + 2 * Len(viewer.moveQueue) <= callLimit

\* the moves dispatched since auto-play was started are the moves of the list
\* from playFrom on, in list order, each once
PlayedInOrder ==
    Playing =>
        LET k == Len(viewer.dispatched) - viewer.playAt
        IN  /\ k >= 0
            /\ k <= Len(viewer.moveList) - viewer.playFrom
            /\ viewer.currentStep = viewer.playFrom + k
            /\ \A i \in 1..k :
                  LET d == viewer.dispatched[viewer.playAt + i]
                      move == viewer.moveList[viewer.playFrom + i]
                  IN  /\ d.face = move[1]
                      /\ d.rotation = tokenRotation(move)
                      /\ ~d.back
                      /\ d.step = viewer.playFrom + i - 1

\* every remaining move has been dispatched and its wait timer has fired
PlayedOut ==
    /\ Len(viewer.dispatched) - viewer.playAt = Len(viewer.moveList) - viewer.playFrom
    /\ viewer.currentStep = Len(viewer.moveList)
    /\ viewer.moveQueue = << >>
    /\ ~viewer.isProcessing

\* a move is dispatched only when no wait timer is pending, and starts one
DispatchStep ==
    Len(viewer'.dispatched) > Len(viewer.dispatched) =>
        /\ Len(viewer'.dispatched) = Len(viewer.dispatched) + 1
        /\ viewer.waitTimers = 0
        /\ viewer'.waitTimers = 1

\* C37: the viewer dispatches one move at a time, the next one only after
\* the wait timer of the previous one has fired; an auto-play that no button
\* interrupts dispatches the remaining moves once each in list order and
\* ends with currentStep at the length of the list.
PlaybackOrder ==
    /\ [](viewer.waitTimers <= 1)
    /\ [][DispatchStep]_vars
    /\ []PlayedInOrder
    /\ (Playing /\ PlayRoom) ~> (viewer.interrupted \/ PlayedOut)

\* an auto-play started at the first move has played the whole list
PlaybackOrderWitness ==
    /\ Playing
    /\ PlayedOut
    /\ viewer.playFrom = 0
    /\ Len(viewer.dispatched) = Len(viewer.moveList)
    /\ viewer.moveList[1] # viewer.moveList[2]

====
